---- MODULE Spec2Model ----
(***************************************************************************)
(* A model of the ecs-rs runtime core: the entity manager with its index   *)
(* pool, the per-type component storages, the aspect predicate, the        *)
(* interest-tracking entity systems and the World with its three deferred  *)
(* mutation queues.                                                        *)
(***************************************************************************)
EXTENDS Integers, Sequences, FiniteSets, TLC

VARIABLES
    em,             \* EntityManager: [indices, entities, next_id]
    issued,         \* every Entity value returned by create so far, in order
    hist,           \* history: the latest create/remove calls (SpecEM), the
                    \* mark of update's return (Spec)
    comps,          \* ComponentManager.components: type -> (slot index -> value)
    interested,     \* per system: EntitySystem.interested
    build_queue,    \* World.build_queue
    modify_queue,   \* World.modify_queue
    remove_queue,   \* World.remove_queue
    pc,             \* position inside World::update ("idle" outside of it)
    cur,            \* index of the system whose process step is running
    queue,          \* the local `queue` of World::update (the swapped-out snapshot)
    panicked,       \* error() has been called: the call unwound
    applied,        \* history: per request number, how often it has been applied
    log,            \* history: what the current update cycle has run, in order
    calls           \* history: the inner hooks delivered by the last step

emvars == <<em, issued, hist>>
worldvars == <<comps, interested, build_queue, modify_queue, remove_queue,
               pc, cur, queue, panicked, applied, log, calls>>
vars == <<em, issued, hist, comps, interested, build_queue, modify_queue,
          remove_queue, pc, cur, queue, panicked, applied, log, calls>>

----------------------------------------------------------------------------
(* Bounds of the model *)

\* entities ever created in a behaviour of Spec
MaxId ==
    2
\* entities ever created in a behaviour of SpecEM
MaxIdEM ==
    4
\* requests ever enqueued in a behaviour
MaxReq ==
    3

\* component ids in the requirement lists of an aspect of SpecAspect
MaxAspectLen ==
    3

\* component ids handed to one constructor or combinator of SpecAspect
MaxVecLen ==
    2

\* largest index handed to a Buffer of SpecBuffer
MaxBufIndex ==
    1

----------------------------------------------------------------------------
(* Entity and IndexPool (entity.rs) *)

\* Entity::nil
Nil ==
    [index |-> 0, id |-> 0]

\* IndexPool::new
PoolNew ==
    [recycled |-> <<>>, next_index |-> 0]

\* IndexPool::count
PoolCount(p) ==
    p.next_index - Len(p.recycled)

\* a get_index that takes the oldest recycled index instead of the newest
GetIndexFifo(p) ==
    IF Len(p.recycled) > 0
    THEN [index |-> Head(p.recycled),
          pool  |-> [p EXCEPT !.recycled = Tail(@)]]
    ELSE [index |-> p.next_index,
          pool  |-> [p EXCEPT !.next_index = @ + 1]]

\* IndexPool::get_index: pop the last recycled index, else issue next_index
GetIndex(p) ==
    IF Len(p.recycled) > 0
    THEN [index |-> p.recycled[Len(p.recycled)],
          pool  |-> [p EXCEPT !.recycled = SubSeq(@, 1, Len(@) - 1)]]
    ELSE [index |-> p.next_index,
          pool  |-> [p EXCEPT !.next_index = @ + 1]]

\* a return_id that forgets the index
ReturnIdDrop(p, id) ==
    p

\* IndexPool::return_id
ReturnId(p, id) ==
    [p EXCEPT !.recycled = Append(@, id)]

\* EntityManager::new
EMNew ==
    [indices |-> PoolNew, entities |-> <<>>, next_id |-> 0]

\* HashMap::insert / HashMap::remove on a map given as a function
MapInsert(f, k, v) ==
    [x \in DOMAIN f \cup {k} |-> IF x = k THEN v ELSE f[x]]

MapRemove(f, k) ==
    [x \in DOMAIN f \ {k} |-> f[x]]

\* a create that numbers the entity before incrementing next_id
CreateStaleId(m) ==
    LET g   == GetIndex(m.indices)
        ret == [index |-> g.index, id |-> m.next_id]
    IN  [entity |-> ret,
         em     |-> [indices  |-> g.pool,
                     entities |-> MapInsert(m.entities, ret.id, g.index),
                     next_id  |-> m.next_id + 1]]

\* EntityManager::create
Create(m) ==
    LET id  == m.next_id + 1
        g   == GetIndex(m.indices)
        ret == [index |-> g.index, id |-> id]
    IN  [entity |-> ret,
         em     |-> [indices  |-> g.pool,
                     entities |-> MapInsert(m.entities, id, g.index),
                     next_id  |-> id]]

\* EntityManager::is_valid
IsValid(m, e) ==
    e.id \in DOMAIN m.entities

\* a remove that releases the handle's index whether or not the entity is live
RemoveUnguarded(m, e) ==
    [m EXCEPT !.entities = MapRemove(@, e.id),
              !.indices  = ReturnId(@, e.index)]

\* EntityManager::remove
Remove(m, e) ==
    IF e.id \in DOMAIN m.entities
    THEN [m EXCEPT !.entities = MapRemove(@, e.id),
                   !.indices  = ReturnId(@, m.entities[e.id])]
    ELSE m

\* EntityManager::count
Count(m) ==
    PoolCount(m.indices)

\* the live Entity values
Live(m) ==
    {[index |-> m.entities[i], id |-> i] : i \in DOMAIN m.entities}

SeqToSet(s) ==
    {s[i] : i \in DOMAIN s}

\* keep the last k entries of a history
Remember(h, r, k) ==
    LET a == Append(h, r)
    IN  IF Len(a) > k THEN SubSeq(a, Len(a) - k + 1, Len(a)) ELSE a

----------------------------------------------------------------------------
(* Component storage (component.rs) and ComponentManager (world.rs) *)

\* the registered component types
CompIds ==
    {"A"}

\* the component values written: 1 by the closures, 2 by set
Values ==
    {1, 2}

\* ComponentList::add / insert / set: insert or replace the slot's entry
ListSet(l, i, v) ==
    [x \in DOMAIN l \cup {i} |-> IF x = i THEN v ELSE l[x]]

\* a clear that purges nothing
ListRemoveNothing(l, i) ==
    l

\* ComponentList::remove / ComponentList::clear(entity)
ListRemove(l, i) ==
    [x \in DOMAIN l \ {i} |-> l[x]]

\* ComponentList::has
ListHas(l, i) ==
    i \in DOMAIN l

\* ComponentList::get: Some(value) as <<value>>, None as <<>>
ListGet(l, i) ==
    IF i \in DOMAIN l THEN <<l[i]>> ELSE <<>>

\* an insert that leaves an entry that is already there as it is
ListInsertKeep(l, i, v) ==
    [list |-> IF i \in DOMAIN l THEN l ELSE ListSet(l, i, v),
     ret  |-> ListGet(l, i)]

\* ComponentList::add / insert / set with what they return: the map's
\* insert, which hands back the value it replaced
ListInsert(l, i, v) ==
    [list |-> ListSet(l, i, v), ret |-> ListGet(l, i)]

\* ComponentList::remove with what it returns: the value it removed
ListTake(l, i) ==
    [list |-> ListRemove(l, i), ret |-> ListGet(l, i)]

\* the Hot representation, VecMap<T>: a Vec<Option<T>> indexed by the key,
\* None as <<>> and Some(value) as <<value>>; position k + 1 holds key k
VecMapGet(vm, k) ==
    IF k < Len(vm) THEN vm[k + 1] ELSE <<>>

VecMapHas(vm, k) ==
    VecMapGet(vm, k) # <<>>

\* a remove that takes the slot out of the Vec, moving the later keys down
VecMapRemoveShift(vm, k) ==
    [map |-> IF k < Len(vm)
             THEN SubSeq(vm, 1, k) \o SubSeq(vm, k + 2, Len(vm))
             ELSE vm,
     ret |-> VecMapGet(vm, k)]

\* VecMap::remove: the slot is emptied, the Vec keeps its length
VecMapRemove(vm, k) ==
    [map |-> IF k < Len(vm) THEN [vm EXCEPT ![k + 1] = <<>>] ELSE vm,
     ret |-> VecMapGet(vm, k)]

\* VecMap::insert: the Vec is padded with None up to the key, then the slot
\* is replaced
VecMapInsert(vm, k, v) ==
    LET padded == IF Len(vm) <= k
                  THEN vm \o [j \in 1..(k - Len(vm) + 1) |-> <<>>]
                  ELSE vm
    IN  [map |-> [padded EXCEPT ![k + 1] = <<v>>], ret |-> VecMapGet(vm, k)]

\* the (slot, value) entries of the two representations
VecMapEntries(vm) ==
    {<<k, vm[k + 1][1]>> : k \in {j \in 0..(Len(vm) - 1) : vm[j + 1] # <<>>}}

ListEntries(l) ==
    {<<k, l[k]>> : k \in DOMAIN l}

\* what a call on a ComponentList gives back: whether it returned at all
\* (Index / IndexMut panic on a missing entry), the Option or reference
\* returned, the bool returned
Returns(val, yes) ==
    [ok |-> TRUE, val |-> val, yes |-> yes]

Panics ==
    [ok |-> FALSE, val |-> <<>>, yes |-> FALSE]

\* an indexed access that hands back the Option as it is
IndexOfUnchecked(opt) ==
    Returns(opt, FALSE)

\* impl Index / IndexMut for ComponentList: &c[index], get_mut(..).expect(..)
IndexOf(opt) ==
    IF opt = <<>> THEN Panics ELSE Returns(opt, FALSE)

\* ComponentManager::new with every type of CompIds registered
CMNew ==
    [c \in CompIds |-> <<>>]

\* ComponentManager::add / ComponentManager::set
CMSet(cs, e, c, v) ==
    [cs EXCEPT ![c] = ListSet(@, e.index, v)]

\* ComponentManager::remove
CMRemove(cs, e, c) ==
    [cs EXCEPT ![c] = ListRemove(@, e.index)]

\* ComponentManager::has
CMHas(cs, e, c) ==
    ListHas(cs[c], e.index)

\* ComponentManager::delete_entity / remove_all
CMDeleteEntity(cs, e) ==
    [c \in DOMAIN cs |-> ListRemove(cs[c], e.index)]

----------------------------------------------------------------------------
(* Aspect (aspect.rs) *)

AspectNil ==
    [all |-> <<>>, any |-> <<>>, none |-> <<>>]

ForAll(vec) ==
    [all |-> vec, any |-> <<>>, none |-> <<>>]

ForAny(vec) ==
    [all |-> <<>>, any |-> vec, none |-> <<>>]

ForNone(vec) ==
    [all |-> <<>>, any |-> <<>>, none |-> vec]

\* a with_all that replaces the requirement instead of extending it
WithAllReplace(a, vec) ==
    [a EXCEPT !.all = vec]

WithAll(a, vec) ==
    [a EXCEPT !.all = @ \o vec]

WithAny(a, vec) ==
    [a EXCEPT !.any = @ \o vec]

WithNone(a, vec) ==
    [a EXCEPT !.none = @ \o vec]

\* with_all / with_any / with_none, by the name of the requirement
With(a, kind, vec) ==
    CASE kind = "all"  -> WithAll(a, vec)
      [] kind = "any"  -> WithAny(a, vec)
      [] kind = "none" -> WithNone(a, vec)

\* a check that wants one of any: to be found also when any: is empty
CheckAnyStrict(a, cs, e) ==
    /\ (a.all = <<>> \/ \A i \in DOMAIN a.all : CMHas(cs, e, a.all[i]))
    /\ ~(\E i \in DOMAIN a.none : CMHas(cs, e, a.none[i]))
    /\ \E i \in DOMAIN a.any : CMHas(cs, e, a.any[i])

\* Aspect::check
Check(a, cs, e) ==
    /\ (a.all = <<>> \/ \A i \in DOMAIN a.all : CMHas(cs, e, a.all[i]))
    /\ ~(\E i \in DOMAIN a.none : CMHas(cs, e, a.none[i]))
    /\ (a.any = <<>> \/ \E i \in DOMAIN a.any : CMHas(cs, e, a.any[i]))

\* the predicate the aspect! macro expands to, for its all: and none: fields:
\* (has(f1) && ... && true) && !(has(g1) || ... || false)
RECURSIVE MacroAll(_, _, _)
MacroAll(fields, cs, e) ==
    IF fields = <<>> THEN TRUE
    ELSE CMHas(cs, e, Head(fields)) /\ MacroAll(Tail(fields), cs, e)

RECURSIVE MacroNone(_, _, _)
MacroNone(fields, cs, e) ==
    IF fields = <<>> THEN FALSE
    ELSE CMHas(cs, e, Head(fields)) \/ MacroNone(Tail(fields), cs, e)

MacroCheck(allf, nonef, cs, e) ==
    MacroAll(allf, cs, e) /\ ~MacroNone(nonef, cs, e)

\* the registered entity systems, by their aspects
SysAspects ==
    << ForAll(<<"A">>), ForNone(<<"A">>) >>

Systems ==
    DOMAIN SysAspects

----------------------------------------------------------------------------
(* EntitySystem: the interest tracker (system/entity.rs) *)

Call(s, hook, e) ==
    [sys |-> s, hook |-> hook, e |-> e]

\* EntitySystem::activated
TrackActivated(int, a, cs, s, e) ==
    IF Check(a, cs, e)
    THEN [interested |-> int \cup {e}, calls |-> <<Call(s, "activated", e)>>]
    ELSE [interested |-> int, calls |-> <<>>]

\* a reactivated that keeps an interested entity whose aspect fails
TrackReactivatedKeep(int, a, cs, s, e) ==
    IF e \in int
    THEN IF Check(a, cs, e)
         THEN [interested |-> int, calls |-> <<Call(s, "reactivated", e)>>]
         ELSE [interested |-> int, calls |-> <<Call(s, "deactivated", e)>>]
    ELSE IF Check(a, cs, e)
         THEN [interested |-> int \cup {e},
               calls |-> <<Call(s, "activated", e)>>]
         ELSE [interested |-> int, calls |-> <<>>]

\* EntitySystem::reactivated
TrackReactivated(int, a, cs, s, e) ==
    IF e \in int
    THEN IF Check(a, cs, e)
         THEN [interested |-> int, calls |-> <<Call(s, "reactivated", e)>>]
         ELSE [interested |-> int \ {e},
               calls |-> <<Call(s, "deactivated", e)>>]
    ELSE IF Check(a, cs, e)
         THEN [interested |-> int \cup {e},
               calls |-> <<Call(s, "activated", e)>>]
         ELSE [interested |-> int, calls |-> <<>>]

\* a deactivated that tells the inner unit about every entity
TrackDeactivatedAlways(int, a, cs, s, e) ==
    [interested |-> int \ {e}, calls |-> <<Call(s, "deactivated", e)>>]

\* EntitySystem::deactivated
TrackDeactivated(int, a, cs, s, e) ==
    IF e \in int
    THEN [interested |-> int \ {e}, calls |-> <<Call(s, "deactivated", e)>>]
    ELSE [interested |-> int, calls |-> <<>>]

Track(kind, int, a, cs, s, e) ==
    CASE kind = "activated"   -> TrackActivated(int, a, cs, s, e)
      [] kind = "reactivated" -> TrackReactivated(int, a, cs, s, e)
      [] kind = "deactivated" -> TrackDeactivated(int, a, cs, s, e)

\* DataSystem::activated: the entity's data is initialised by inner.init and
\* inserted, then inner.activated runs (system/data.rs)
DataActivated(int, a, cs, s, e) ==
    IF Check(a, cs, e)
    THEN [interested |-> int \cup {e},
          calls |-> <<Call(s, "init", e), Call(s, "activated", e)>>]
    ELSE [interested |-> int, calls |-> <<>>]

\* InteractSystem::deactivated: one inner unit behind two interested sets
\* (system/interact.rs)
InteractDeactivated(inta, intb, s, e) ==
    LET ca == IF e \in inta THEN <<Call(s, "deactivated", e)>> ELSE <<>>
        cb == IF e \in intb THEN <<Call(s, "deactivated", e)>> ELSE <<>>
    IN  [interested_a |-> inta \ {e}, interested_b |-> intb \ {e},
         calls |-> ca \o cb]

\* a default reactivated that activates before it deactivates
ReactivatedDefaultSwapped(s, e) ==
    <<Call(s, "activated", e), Call(s, "deactivated", e)>>

\* System::reactivated / EntityProcess::reactivated, the default body:
\* self.deactivated(e, w); self.activated(e, w). The default bodies of
\* activated and deactivated are empty.
ReactivatedDefault(s, e) ==
    <<Call(s, "deactivated", e), Call(s, "activated", e)>>

\* which registered systems have an inner unit that overrides reactivated
Overrides ==
    <<FALSE, TRUE>>

\* the hooks entered on the inner unit by one call c of its tracker
Enter(c) ==
    IF c.hook = "reactivated" /\ ~Overrides[c.sys]
    THEN <<c>> \o ReactivatedDefault(c.sys, c.e)
    ELSE <<c>>

RECURSIVE InnerTrace(_)
InnerTrace(cl) ==
    IF cl = <<>> THEN <<>> ELSE Enter(Head(cl)) \o InnerTrace(Tail(cl))

----------------------------------------------------------------------------
(* World (world.rs), as operators on the record of its fields *)

\* the closures a caller may pass: what they add, what they remove, and the
\* request they enqueue through Components while they run
NestKinds ==
    {"none", "build", "modify", "remove"}

Closure(add, del, nest) ==
    [add |-> add, del |-> del, nest |-> nest]

\* the unit builder / modifier ()
Unit ==
    Closure({}, {}, "none")

Builders ==
    {Unit, Closure({"A"}, {}, "build")}

Modifiers ==
    {Closure({"A"}, {}, "none"), Closure({}, {}, "modify")}

\* the closures enqueued by a closure
NestedBuilder ==
    Closure({"A"}, {}, "none")

NestedModifier ==
    Closure({}, {"A"}, "none")

\* the fields of the World, with the hooks delivered so far by this step
Cur ==
    [em |-> em, issued |-> issued, comps |-> comps,
     interested |-> interested, build_queue |-> build_queue,
     modify_queue |-> modify_queue, remove_queue |-> remove_queue,
     panicked |-> panicked, applied |-> applied, calls |-> <<>>]

Commit(w) ==
    /\ em' = w.em
    /\ issued' = w.issued
    /\ comps' = w.comps
    /\ interested' = w.interested
    /\ build_queue' = w.build_queue
    /\ modify_queue' = w.modify_queue
    /\ remove_queue' = w.remove_queue
    /\ panicked' = w.panicked
    /\ applied' = w.applied
    /\ calls' = w.calls

\* error(): the call does not return
Error(w) ==
    [w EXCEPT !.panicked = TRUE]

\* a queue entry: the entity, the closure, and (history) the number of the
\* request and the phase of the latest update it was enqueued in ("idle" when
\* it was enqueued before that update began)
Entry(w, e, f) ==
    [e |-> e, f |-> f, n |-> Len(w.applied) + 1, ph |-> pc]

\* history: a new update begins, the waiting entries predate it
Restamp(q) ==
    [i \in DOMAIN q |-> [q[i] EXCEPT !.ph = "idle"]]

\* World::queue_builder
QueueBuilder(w, b) ==
    LET c == Create(w.em)
    IN  [w EXCEPT !.em = c.em,
                  !.issued = Append(@, c.entity),
                  !.build_queue = Append(@, Entry(w, c.entity, b)),
                  !.applied = Append(@, 0)]

\* World::queue_modifier
QueueModifier(w, e, m) ==
    [w EXCEPT !.modify_queue = Append(@, Entry(w, e, m)),
              !.applied = Append(@, 0)]

\* a removal request that purges the storages at once
QueueRemovalEager(w, e) ==
    [w EXCEPT !.remove_queue = Append(@, Entry(w, e, Unit)),
              !.applied = Append(@, 0),
              !.comps = CMDeleteEntity(@, e)]

\* World::queue_removal
QueueRemoval(w, e) ==
    [w EXCEPT !.remove_queue = Append(@, Entry(w, e, Unit)),
              !.applied = Append(@, 0)]

RECURSIVE AddAll(_, _, _)
\* Components::add for every type the closure adds
AddAll(cs, e, S) ==
    IF S = {} THEN cs
    ELSE LET c == CHOOSE x \in S : TRUE
         IN  AddAll(CMSet(cs, e, c, 1), e, S \ {c})

RECURSIVE RemoveAll(_, _, _)
\* Components::remove for every type the closure removes
RemoveAll(cs, e, S) ==
    IF S = {} THEN cs
    ELSE LET c == CHOOSE x \in S : TRUE
         IN  RemoveAll(CMRemove(cs, e, c), e, S \ {c})

\* Components::build_entity / modify_entity / remove_entity called by a closure
Nested(w, e, f) ==
    CASE f.nest = "none"   -> w
      [] f.nest = "build"  -> QueueBuilder(w, NestedBuilder)
      [] f.nest = "modify" -> QueueModifier(w, e, NestedModifier)
      [] f.nest = "remove" -> QueueRemoval(w, e)

\* EntityBuilder::build / EntityModifier::modify of closure f on entity e
RunClosure(w, e, f) ==
    Nested([w EXCEPT !.comps = RemoveAll(AddAll(@, e, f.add), e, f.del)], e, f)

RECURSIVE NotifyFrom(_, _, _, _)
\* SystemManager::activated / reactivated / deactivated: every system in turn
NotifyFrom(w, kind, e, s) ==
    IF s > Len(SysAspects) THEN w
    ELSE LET t == Track(kind, w.interested[s], SysAspects[s], w.comps, s, e)
         IN  NotifyFrom([w EXCEPT !.interested[s] = t.interested,
                                  !.calls = @ \o t.calls],
                        kind, e, s + 1)

\* World::activate_entity
ActivateEntity(w, e) ==
    NotifyFrom(w, "activated", e, 1)

\* World::reactivate_entity
ReactivateEntity(w, e) ==
    NotifyFrom(w, "reactivated", e, 1)

\* World::build_entity
BuildEntityOp(w, b) ==
    LET c  == Create(w.em)
        w1 == [w EXCEPT !.em = c.em, !.issued = Append(@, c.entity)]
    IN  ActivateEntity(RunClosure(w1, c.entity, b), c.entity)

\* a modify_entity that notifies the systems before the modifier runs
ModifyEntityOpNotifyFirst(w, e, m) ==
    RunClosure(ReactivateEntity(w, e), e, m)

\* World::modify_entity
ModifyEntityOp(w, e, m) ==
    ReactivateEntity(RunClosure(w, e, m), e)

\* a remove_entity that does not ask whether the entity is valid
RemoveEntityOpUnchecked(w, e) ==
    LET w1 == NotifyFrom(w, "deactivated", e, 1)
        w2 == [w1 EXCEPT !.comps = CMDeleteEntity(@, e)]
    IN  [w2 EXCEPT !.em = RemoveUnguarded(@, e)]

\* the statements of World::remove_entity for a valid entity, in order, each
\* with the world it leaves
RemoveSteps(w, e) ==
    LET w1 == NotifyFrom(w, "deactivated", e, 1)
        w2 == [w1 EXCEPT !.comps = CMDeleteEntity(@, e)]
        w3 == [w2 EXCEPT !.em = Remove(@, e)]
    IN  << [step |-> "notify", w |-> w1],
           [step |-> "purge", w |-> w2],
           [step |-> "release", w |-> w3] >>

\* World::remove_entity
RemoveEntityOp(w, e) ==
    IF IsValid(w.em, e)
    THEN RemoveSteps(w, e)[3].w
    ELSE Error(w)

\* the live entities, by ascending id
RECURSIVE LiveSeq(_)
LiveSeq(m) ==
    IF DOMAIN m.entities = {} THEN <<>>
    ELSE LET i == CHOOSE x \in DOMAIN m.entities :
                      \A y \in DOMAIN m.entities : x <= y
         IN  <<[index |-> m.entities[i], id |-> i]>>
                 \o LiveSeq([m EXCEPT !.entities = MapRemove(@, i)])

RECURSIVE RemoveEach(_, _)
RemoveEach(m, es) ==
    IF es = <<>> THEN m ELSE RemoveEach(Remove(m, Head(es)), Tail(es))

\* EntityManager::clear: every live entity is removed, and handed back
EMClear(m) ==
    [entities |-> LiveSeq(m), em |-> RemoveEach(m, LiveSeq(m))]

\* ComponentManager::clear
CMClear(cs) ==
    [c \in DOMAIN cs |-> <<>>]

RECURSIVE DeactivateEach(_, _)
DeactivateEach(w, es) ==
    IF es = <<>> THEN w
    ELSE DeactivateEach(NotifyFrom(w, "deactivated", Head(es), 1), Tail(es))

\* the statements of World::clear, in order, each with the world it leaves
ClearSteps(w) ==
    LET c  == EMClear(w.em)
        w1 == [w EXCEPT !.em = c.em]
        w2 == DeactivateEach(w1, c.entities)
        w3 == [w2 EXCEPT !.comps = CMClear(@)]
    IN  << [step |-> "release", w |-> w1],
           [step |-> "notify", w |-> w2],
           [step |-> "purge", w |-> w3] >>

\* World::set_component
SetComponentOp(w, e, c, v) ==
    IF IsValid(w.em, e)
    THEN [w EXCEPT !.comps = CMSet(@, e, c, v)]
    ELSE Error(w)

\* World::has_component: what the call returns and whether it failed
HasComponentOp(w, e, c) ==
    [ret |-> CMHas(w.comps, e, c), panicked |-> w.panicked]

\* EntityData::set
EntityDataSet(w, e, c, v) ==
    [w EXCEPT !.comps = CMSet(@, e, c, v)]

\* WorldBuilder::new, register_component, register_system, build
WorldInit ==
    /\ comps = CMNew
    /\ interested = [s \in Systems |-> {}]
    /\ build_queue = <<>>
    /\ modify_queue = <<>>
    /\ remove_queue = <<>>
    /\ pc = "idle"
    /\ cur = 0
    /\ queue = <<>>
    /\ panicked = FALSE
    /\ applied = <<>>
    /\ log = <<>>
    /\ calls = <<>>

----------------------------------------------------------------------------
(* The World: its operations and the steps of World::update *)

Init ==
    /\ em = EMNew
    /\ issued = <<>>
    /\ hist = <<>>
    /\ WorldInit

Handles ==
    SeqToSet(issued)

\* the mark left in hist by the return of World::update
Returned ==
    <<[op |-> "update", e |-> Nil]>>

\* the closures waiting in a queue or in update's snapshot
Waiting ==
    build_queue \o modify_queue \o queue

NestWaiting(kinds) ==
    Cardinality({i \in DOMAIN Waiting : Waiting[i].f.nest \in kinds})

\* the bounds leave room for newIds entities and newReqs requests on top of
\* what closure f and the waiting closures will create when they run
Room(f, newIds, newReqs) ==
    /\ em.next_id + NestWaiting({"build"}) + newIds
            + (IF f.nest = "build" THEN 1 ELSE 0) <= MaxId
    /\ Len(applied) + NestWaiting(NestKinds \ {"none"}) + newReqs
            + (IF f.nest # "none" THEN 1 ELSE 0) <= MaxReq

UpdateLocals ==
    <<pc, cur, queue>>

\* history: hist and log describe the latest update until the next operation
Forget ==
    /\ hist' = <<>>
    /\ log' = IF pc = "idle" THEN <<>> ELSE log

\* World::build_entity, called between updates
BuildEntity(b) ==
    /\ pc = "idle" /\ ~panicked
    /\ Room(b, 1, 0)
    /\ Commit(BuildEntityOp(Cur, b))
    /\ Forget
    /\ UNCHANGED UpdateLocals

\* World::modify_entity, called between updates
ModifyEntity(e, m) ==
    /\ pc = "idle" /\ ~panicked
    /\ Room(m, 0, 0)
    /\ Commit(ModifyEntityOp(Cur, e, m))
    /\ Forget
    /\ UNCHANGED UpdateLocals

\* World::remove_entity, called between updates
RemoveEntity(e) ==
    /\ pc = "idle" /\ ~panicked
    /\ Commit(RemoveEntityOp(Cur, e))
    /\ Forget
    /\ UNCHANGED UpdateLocals

\* World::set_component, called between updates
SetComponent(e, c, v) ==
    /\ pc = "idle" /\ ~panicked
    /\ Commit(SetComponentOp(Cur, e, c, v))
    /\ Forget
    /\ UNCHANGED UpdateLocals

\* World::queue_builder, or EntityData::build_entity from a process step
QueueBuilderCall(b) ==
    /\ pc \in {"idle", "process"} /\ ~panicked
    /\ Room(b, 1, 1)
    /\ Commit(QueueBuilder(Cur, b))
    /\ Forget
    /\ UNCHANGED UpdateLocals

\* World::queue_modifier, or EntityData::modify_entity from a process step
QueueModifierCall(e, m) ==
    /\ pc \in {"idle", "process"} /\ ~panicked
    /\ Room(m, 0, 1)
    /\ Commit(QueueModifier(Cur, e, m))
    /\ Forget
    /\ UNCHANGED UpdateLocals

\* World::queue_removal, or EntityData::remove_entity from a process step
QueueRemovalCall(e) ==
    /\ pc \in {"idle", "process"} /\ ~panicked
    /\ Room(Unit, 0, 1)
    /\ Commit(QueueRemoval(Cur, e))
    /\ Forget
    /\ UNCHANGED UpdateLocals

\* EntityData::set, called by the running system's process step on one of
\* the entities it is handed
SysSet(e, c, v) ==
    /\ pc = "process" /\ ~panicked
    /\ e \in interested[cur]
    /\ Commit(EntityDataSet(Cur, e, c, v))
    /\ Forget
    /\ UNCHANGED UpdateLocals

LogEntry(k, ent) ==
    [k |-> k, n |-> ent.n, e |-> ent.e, f |-> ent.f]

ProcessEntry(s) ==
    [k |-> "process", n |-> s, e |-> Nil, f |-> Unit]

\* World::update is called: SystemManager::process reaches the first system
UpdateBegin ==
    /\ pc = "idle" /\ ~panicked
    /\ pc' = "process"
    /\ cur' = 1
    /\ log' = <<ProcessEntry(1)>>
    /\ hist' = <<>>
    /\ Commit([Cur EXCEPT !.build_queue = Restamp(@),
                          !.modify_queue = Restamp(@),
                          !.remove_queue = Restamp(@)])
    /\ UNCHANGED queue

\* a system's process step returns and the next system's begins
ProcessNext ==
    /\ pc = "process" /\ ~panicked
    /\ cur < Len(SysAspects)
    /\ cur' = cur + 1
    /\ log' = Append(log, ProcessEntry(cur + 1))
    /\ hist' = <<>>
    /\ Commit(Cur)
    /\ UNCHANGED <<pc, queue>>

\* an order of the phases that drains the modify queue first
SuccessorModifyFirst(p) ==
    CASE p = "process" -> "modify"
      [] p = "modify"  -> "build"
      [] p = "build"   -> "remove"
      [] p = "remove"  -> "idle"

\* the order of the phases of World::update
Successor(p) ==
    CASE p = "process" -> "build"
      [] p = "build"   -> "modify"
      [] p = "modify"  -> "remove"
      [] p = "remove"  -> "idle"

\* a swap that leaves the entries in the World's queue
SwapKeep(w, p) ==
    CASE p = "build"  -> [w |-> w, queue |-> w.build_queue]
      [] p = "modify" -> [w |-> w, queue |-> w.modify_queue]
      [] p = "remove" -> [w |-> w, queue |-> w.remove_queue]
      [] p = "idle"   -> [w |-> w, queue |-> <<>>]

\* mem::swap(&mut queue, &mut *self.<p>_queue.borrow_mut()) with queue empty
Swap(w, p) ==
    CASE p = "build"  -> [w |-> [w EXCEPT !.build_queue = <<>>],
                          queue |-> w.build_queue]
      [] p = "modify" -> [w |-> [w EXCEPT !.modify_queue = <<>>],
                          queue |-> w.modify_queue]
      [] p = "remove" -> [w |-> [w EXCEPT !.remove_queue = <<>>],
                          queue |-> w.remove_queue]
      [] p = "idle"   -> [w |-> w, queue |-> <<>>]

\* the last process step returns, or a drain loop ends: the next queue is
\* swapped out, or update returns
PhaseDone ==
    /\ ~panicked
    /\ \/ pc = "process" /\ cur = Len(SysAspects)
       \/ pc \in {"build", "modify", "remove"} /\ queue = <<>>
    /\ LET sw == Swap(Cur, Successor(pc))
       IN  /\ Commit(sw.w)
           /\ queue' = sw.queue
    /\ pc' = Successor(pc)
    /\ cur' = 0
    /\ hist' = IF Successor(pc) = "idle" THEN Returned ELSE <<>>
    /\ log' = log

\* an iteration that passes over the entry behind the one it takes
DequeueSkip(q) ==
    [ent |-> Head(q), rest |-> SubSeq(q, 3, Len(q))]

\* queue.into_iter(): the next entry of the loop
Dequeue(q) ==
    [ent |-> Head(q), rest |-> Tail(q)]

\* the body of the drain loop of phase p for entry ent
DrainEntry(w, p, ent) ==
    CASE p = "build"  ->
            IF IsValid(w.em, ent.e)
            THEN ActivateEntity(RunClosure(w, ent.e, ent.f), ent.e)
            ELSE Error(w)
      [] p = "modify" ->
            IF IsValid(w.em, ent.e)
            THEN ReactivateEntity(RunClosure(w, ent.e, ent.f), ent.e)
            ELSE Error(w)
      [] p = "remove" -> RemoveEntityOp(w, ent.e)

\* a drain loop that also takes the requests its own entry enqueued for the
\* queue it is draining
DrainExtending ==
    /\ pc \in {"build", "modify", "remove"} /\ ~panicked
    /\ queue # <<>>
    /\ LET d == Dequeue(queue)
           w == DrainEntry(Cur, pc, d.ent)
           sw == Swap(w, pc)
       IN  IF w.panicked
           THEN /\ Commit(w)
                /\ queue' = <<>>
                /\ log' = Append(log, LogEntry("error", d.ent))
           ELSE /\ Commit([sw.w EXCEPT !.applied[d.ent.n] = @ + 1])
                /\ queue' = d.rest \o sw.queue
                /\ log' = Append(log, LogEntry(pc, d.ent))
    /\ hist' = <<>>
    /\ UNCHANGED <<pc, cur>>

\* one iteration of a drain loop of World::update
Drain ==
    /\ pc \in {"build", "modify", "remove"} /\ ~panicked
    /\ queue # <<>>
    /\ LET d == Dequeue(queue)
           w == DrainEntry(Cur, pc, d.ent)
       IN  IF w.panicked
           THEN /\ Commit(w)
                /\ queue' = <<>>
                /\ log' = Append(log, LogEntry("error", d.ent))
           ELSE /\ Commit([w EXCEPT !.applied[d.ent.n] = @ + 1])
                /\ queue' = d.rest
                /\ log' = Append(log, LogEntry(pc, d.ent))
    /\ hist' = <<>>
    /\ UNCHANGED <<pc, cur>>

Next ==
    \/ \E b \in Builders : BuildEntity(b)
    \/ \E e \in Handles, m \in Modifiers : ModifyEntity(e, m)
    \/ \E e \in Handles : RemoveEntity(e)
    \/ \E e \in Handles, c \in CompIds : SetComponent(e, c, 2)
    \/ \E b \in Builders : QueueBuilderCall(b)
    \/ \E e \in Handles, m \in Modifiers : QueueModifierCall(e, m)
    \/ \E e \in Handles : QueueRemovalCall(e)
    \/ \E e \in Handles, c \in CompIds : SysSet(e, c, 2)
    \/ UpdateBegin
    \/ ProcessNext
    \/ PhaseDone
    \/ Drain

Spec ==
    Init /\ [][Next]_vars

\* requests are enqueued and update is called; a call of update runs on
\* until it returns or ends in error()
NextUpdate ==
    \/ \E b \in Builders : QueueBuilderCall(b)
    \/ \E e \in Handles, m \in Modifiers : QueueModifierCall(e, m)
    \/ \E e \in Handles : QueueRemovalCall(e)
    \/ UpdateBegin
    \/ ProcessNext
    \/ PhaseDone
    \/ Drain

SpecUpdate ==
    /\ Init /\ [][NextUpdate]_vars
    /\ WF_vars(ProcessNext) /\ WF_vars(PhaseDone) /\ WF_vars(Drain)

----------------------------------------------------------------------------
(* The entity manager on its own: any sequence of create and remove *)

InitEM ==
    /\ em = EMNew
    /\ issued = <<>>
    /\ hist = <<>>
    /\ WorldInit

EMCreate ==
    /\ em.next_id < MaxIdEM
    /\ LET c == Create(em)
       IN  /\ em' = c.em
           /\ issued' = Append(issued, c.entity)
           /\ hist' = Remember(hist, [op |-> "create", e |-> c.entity], 3)
    /\ UNCHANGED worldvars

EMRemove(e) ==
    /\ em' = Remove(em, e)
    /\ hist' = Remember(hist, [op |-> "remove", e |-> e], 3)
    /\ UNCHANGED <<issued, worldvars>>

NextEM ==
    \/ EMCreate
    \/ \E e \in SeqToSet(issued) \cup {Nil} : EMRemove(e)

SpecEM ==
    InitEM /\ [][NextEM]_vars

----------------------------------------------------------------------------
(* The aspect on its own: any aspect the constructors and combinators      *)
(* build, checked against any component signature of one entity            *)

\* the component types of this specification
AspectIds ==
    {"A", "B", "C"}

\* the vectors of component ids a caller passes
Vecs ==
    UNION {[1..n -> AspectIds] : n \in 0..MaxVecLen}

\* the entity whose components are checked
TheEntity ==
    [index |-> 0, id |-> 1]

\* the aspect under test
TheAspect ==
    hist[1].a

AspectLen(a) ==
    Len(a.all) + Len(a.any) + Len(a.none)

InitAspect ==
    /\ em = EMNew
    /\ issued = <<>>
    /\ hist = <<[op |-> "aspect", a |-> AspectNil]>>
    /\ comps = [c \in AspectIds |-> <<>>]
    /\ interested = [s \in Systems |-> {}]
    /\ build_queue = <<>>
    /\ modify_queue = <<>>
    /\ remove_queue = <<>>
    /\ pc = "idle"
    /\ cur = 0
    /\ queue = <<>>
    /\ panicked = FALSE
    /\ applied = <<>>
    /\ log = <<>>
    /\ calls = <<>>

aspectframe == <<em, issued, interested, build_queue, modify_queue,
                 remove_queue, pc, cur, queue, panicked, applied, calls>>

\* Aspect::nil, Aspect::for_all, Aspect::for_any, Aspect::for_none
AspFor(kind, vec) ==
    /\ hist' = <<[op |-> "aspect",
                  a  |-> CASE kind = "nil"  -> AspectNil
                           [] kind = "all"  -> ForAll(vec)
                           [] kind = "any"  -> ForAny(vec)
                           [] kind = "none" -> ForNone(vec)]>>
    /\ log' = <<>>
    /\ UNCHANGED <<comps, aspectframe>>

\* Aspect::with_all, Aspect::with_any, Aspect::with_none
AspWith(kind, vec) ==
    /\ AspectLen(TheAspect) + Len(vec) <= MaxAspectLen
    /\ hist' = <<[op |-> "with", a |-> With(TheAspect, kind, vec)]>>
    /\ log' = <<>>
    /\ UNCHANGED <<comps, aspectframe>>

\* the entity gains or loses a component
AspAdd(c) ==
    /\ comps' = CMSet(comps, TheEntity, c, 1)
    /\ log' = <<>>
    /\ UNCHANGED <<hist, aspectframe>>

AspDel(c) ==
    /\ comps' = CMRemove(comps, TheEntity, c)
    /\ log' = <<>>
    /\ UNCHANGED <<hist, aspectframe>>

\* Aspect::check, and the aspect! predicate for the same all: and none:
AspCheck ==
    /\ log' = <<[ret   |-> Check(TheAspect, comps, TheEntity),
                 macro |-> MacroCheck(TheAspect.all, TheAspect.none, comps,
                                      TheEntity)]>>
    /\ UNCHANGED <<hist, comps, aspectframe>>

NextAspect ==
    \/ \E kind \in {"nil", "all", "any", "none"}, vec \in Vecs :
            AspFor(kind, vec)
    \/ \E kind \in {"all", "any", "none"}, vec \in Vecs : AspWith(kind, vec)
    \/ \E c \in AspectIds : AspAdd(c)
    \/ \E c \in AspectIds : AspDel(c)
    \/ AspCheck

SpecAspect ==
    InitAspect /\ [][NextAspect]_vars

----------------------------------------------------------------------------
(* The component storages on their own: two ComponentLists, any operation  *)
(* on any slot                                                             *)

\* the component types of this specification
ListIds ==
    {"A", "B"}

\* the slot indices of the entities handed to the lists
Slots ==
    {0, 1}

InitList ==
    /\ em = EMNew
    /\ issued = <<>>
    /\ hist = <<>>
    /\ comps = [c \in ListIds |-> <<>>]
    /\ interested = [s \in Systems |-> {}]
    /\ build_queue = <<>>
    /\ modify_queue = <<>>
    /\ remove_queue = <<>>
    /\ pc = "idle"
    /\ cur = 0
    /\ queue = <<>>
    /\ panicked = FALSE
    /\ applied = <<>>
    /\ log = <<>>
    /\ calls = <<>>

listframe == <<em, issued, interested, build_queue, modify_queue,
               remove_queue, pc, cur, queue, panicked, applied, log, calls>>

\* what is remembered of a call: the method, the list, the slot, the value
\* passed, the Option returned and the bool returned
ListCall(op, c, i, v, ret, yes) ==
    [op |-> op, c |-> c, i |-> i, v |-> v, ret |-> ret, yes |-> yes]

\* ComponentList::add, ComponentList::insert, ComponentList::set
LstInsert(op, c, i, v) ==
    LET r == ListInsert(comps[c], i, v)
    IN  /\ comps' = [comps EXCEPT ![c] = r.list]
        /\ hist' = <<ListCall(op, c, i, v, r.ret, FALSE)>>
        /\ UNCHANGED listframe

\* ComponentList::remove
LstRemove(c, i) ==
    LET r == ListTake(comps[c], i)
    IN  /\ comps' = [comps EXCEPT ![c] = r.list]
        /\ hist' = <<ListCall("remove", c, i, 0, r.ret, FALSE)>>
        /\ UNCHANGED listframe

\* ComponentList::clear(entity), which returns nothing
LstClear(c, i) ==
    /\ comps' = [comps EXCEPT ![c] = ListRemove(@, i)]
    /\ hist' = <<ListCall("clear", c, i, 0, <<>>, FALSE)>>
    /\ UNCHANGED listframe

\* ComponentList::get
LstGet(c, i) ==
    /\ hist' = <<ListCall("get", c, i, 0, ListGet(comps[c], i), FALSE)>>
    /\ UNCHANGED <<comps, listframe>>

\* ComponentList::has
LstHas(c, i) ==
    /\ hist' = <<ListCall("has", c, i, 0, <<>>, ListHas(comps[c], i))>>
    /\ UNCHANGED <<comps, listframe>>

NextList ==
    \/ \E op \in {"add", "insert", "set"}, c \in ListIds, i \in Slots,
          v \in Values : LstInsert(op, c, i, v)
    \/ \E c \in ListIds, i \in Slots : LstRemove(c, i)
    \/ \E c \in ListIds, i \in Slots : LstClear(c, i)
    \/ \E c \in ListIds, i \in Slots : LstGet(c, i)
    \/ \E c \in ListIds, i \in Slots : LstHas(c, i)

SpecList ==
    InitList /\ [][NextList]_vars

----------------------------------------------------------------------------
(* One Hot and one Cold ComponentList, given the same calls                *)

\* the slot indices handed to the two lists
HotSlots ==
    {0, 1, 2}

InitHotCold ==
    /\ em = EMNew
    /\ issued = <<>>
    /\ hist = <<>>
    /\ comps = [hot |-> <<>>, cold |-> <<>>]
    /\ interested = [s \in Systems |-> {}]
    /\ build_queue = <<>>
    /\ modify_queue = <<>>
    /\ remove_queue = <<>>
    /\ pc = "idle"
    /\ cur = 0
    /\ queue = <<>>
    /\ panicked = FALSE
    /\ applied = <<>>
    /\ log = <<>>
    /\ calls = <<>>

\* what is remembered of a call: the method, the slot, the value passed and
\* what the Hot and the Cold list gave back
HotColdCall(op, i, v, hot, cold) ==
    [op |-> op, i |-> i, v |-> v, hot |-> hot, cold |-> cold]

\* ComponentList::add / insert / set
HCInsert(op, i, v) ==
    LET h == VecMapInsert(comps.hot, i, v)
        c == ListInsert(comps.cold, i, v)
    IN  /\ comps' = [hot |-> h.map, cold |-> c.list]
        /\ hist' = <<HotColdCall(op, i, v, Returns(h.ret, FALSE),
                                 Returns(c.ret, FALSE))>>
        /\ UNCHANGED listframe

\* ComponentList::remove, and ComponentList::clear which returns nothing
HCRemove(op, i) ==
    LET h == VecMapRemove(comps.hot, i)
        c == ListTake(comps.cold, i)
    IN  /\ comps' = [hot |-> h.map, cold |-> c.list]
        /\ hist' = <<HotColdCall(op, i, 0,
                        Returns(IF op = "clear" THEN <<>> ELSE h.ret, FALSE),
                        Returns(IF op = "clear" THEN <<>> ELSE c.ret, FALSE))>>
        /\ UNCHANGED listframe

\* ComponentList::get, ComponentList::borrow
HCGet(op, i) ==
    /\ hist' = <<HotColdCall(op, i, 0,
                    Returns(VecMapGet(comps.hot, i), FALSE),
                    Returns(ListGet(comps.cold, i), FALSE))>>
    /\ UNCHANGED <<comps, listframe>>

\* ComponentList::has
HCHas(i) ==
    /\ hist' = <<HotColdCall("has", i, 0,
                    Returns(<<>>, VecMapHas(comps.hot, i)),
                    Returns(<<>>, ListHas(comps.cold, i)))>>
    /\ UNCHANGED <<comps, listframe>>

\* list[entity], read or written through
HCIndex(op, i) ==
    /\ hist' = <<HotColdCall(op, i, 0, IndexOf(VecMapGet(comps.hot, i)),
                             IndexOf(ListGet(comps.cold, i)))>>
    /\ UNCHANGED <<comps, listframe>>

\* the list methods behind ComponentManager::get and ComponentManager::with
\* (get::<T>, borrow::<T>): they hand out a T, so a missing entry fails
TrustedGet(opt) ==
    IF opt = <<>> THEN Panics ELSE Returns(opt, FALSE)

\* World::get_component, World::with_component for a valid entity
HCTrusted(op, i) ==
    /\ hist' = <<HotColdCall(op, i, 0, TrustedGet(VecMapGet(comps.hot, i)),
                             TrustedGet(ListGet(comps.cold, i)))>>
    /\ UNCHANGED <<comps, listframe>>

\* World::try_component, World::try_with_component for a valid entity
HCTry(op, i) ==
    /\ hist' = <<HotColdCall(op, i, 0,
                    Returns(VecMapGet(comps.hot, i), FALSE),
                    Returns(ListGet(comps.cold, i), FALSE))>>
    /\ UNCHANGED <<comps, listframe>>

NextHotCold ==
    \/ \E op \in {"add", "insert", "set"}, i \in HotSlots, v \in Values :
            HCInsert(op, i, v)
    \/ \E op \in {"remove", "clear"}, i \in HotSlots : HCRemove(op, i)
    \/ \E op \in {"get", "borrow"}, i \in HotSlots : HCGet(op, i)
    \/ \E i \in HotSlots : HCHas(i)
    \/ \E op \in {"index", "index_mut"}, i \in HotSlots : HCIndex(op, i)
    \/ \E op \in {"get_component", "with_component"}, i \in HotSlots :
            HCTrusted(op, i)
    \/ \E op \in {"try_component", "try_with_component"}, i \in HotSlots :
            HCTry(op, i)

SpecHotCold ==
    InitHotCold /\ [][NextHotCold]_vars

----------------------------------------------------------------------------
(* Buffer (buffer.rs): values of Copy types stored as bytes                *)

\* the types put into buffers, with mem::size_of
BufTypes ==
    { [name |-> "u8", size |-> 1, signed |-> FALSE],
      [name |-> "i8", size |-> 1, signed |-> TRUE],
      [name |-> "u16", size |-> 2, signed |-> FALSE],
      [name |-> "unit", size |-> 0, signed |-> FALSE] }

\* some values of each type
ValuesOf(t) ==
    CASE t.name = "u8"   -> {1, 200}
      [] t.name = "i8"   -> {1, -56}
      [] t.name = "u16"  -> {1, 513}
      [] t.name = "unit" -> {0}

\* the bytes of a value in memory (little endian, two's complement)
Encode(t, v) ==
    LET u == IF v < 0 THEN v + 256 ELSE v
    IN  SubSeq(<<u % 256, (u \div 256) % 256>>, 1, t.size)

\* the value that bytes are read as
Decode(t, bs) ==
    LET n == IF t.size = 0 THEN 0
             ELSE IF t.size = 1 THEN bs[1]
             ELSE bs[1] + 256 * bs[2]
    IN  IF t.signed /\ n >= 128 THEN n - 256 ELSE n

\* Buffer::new
BufferNew(stride) ==
    [bytes |-> <<>>, stride |-> stride]

\* the loop of Buffer::set: while offset + stride > bytes.len() grow by
\* stride zero bytes
RECURSIVE Grow(_, _, _)
Grow(bytes, offset, stride) ==
    IF offset + stride > Len(bytes)
    THEN Grow(bytes \o [j \in 1..stride |-> 0], offset, stride)
    ELSE bytes

\* Buffer::set
BufferSet(b, t, index, val) ==
    IF t.size # b.stride
    THEN [buf |-> b, ret |-> Panics]
    ELSE LET offset == b.stride * index
             grown  == Grow(b.bytes, offset, b.stride)
             enc    == Encode(t, val)
         IN  [buf |-> [b EXCEPT !.bytes =
                          [j \in 1..Len(grown) |->
                              IF j > offset /\ j <= offset + b.stride
                              THEN enc[j - offset] ELSE grown[j]]],
              ret |-> Returns(<<>>, FALSE)]

\* Buffer::get, Buffer::borrow, Buffer::borrow_mut
BufferGet(b, t, index) ==
    IF t.size # b.stride THEN Panics
    ELSE LET offset == b.stride * index
         IN  IF offset >= Len(b.bytes)
             THEN Returns(<<>>, FALSE)
             ELSE Returns(<<Decode(t, SubSeq(b.bytes, offset + 1,
                                             offset + b.stride))>>, FALSE)

\* Buffer::len: bytes.len() / stride, a division that panics on stride 0
BufferLen(b) ==
    IF b.stride = 0 THEN Panics
    ELSE Returns(<<Len(b.bytes) \div b.stride>>, FALSE)

----------------------------------------------------------------------------
(* One Buffer made for one type, given any call with any type              *)

\* the buffer, and the type it was made for
TheBuffer ==
    comps.buf

MadeFor ==
    comps.ty

InitBuffer ==
    /\ em = EMNew
    /\ issued = <<>>
    /\ hist = <<>>
    /\ comps \in {[buf |-> BufferNew(t.size), ty |-> t] : t \in BufTypes}
    /\ interested = [s \in Systems |-> {}]
    /\ build_queue = <<>>
    /\ modify_queue = <<>>
    /\ remove_queue = <<>>
    /\ pc = "idle"
    /\ cur = 0
    /\ queue = <<>>
    /\ panicked = FALSE
    /\ applied = <<>>
    /\ log = <<>>
    /\ calls = <<>>

\* what is remembered of a call: the method, the type parameter, the index,
\* the value passed and what came back
BufferCall(op, t, i, v, ret) ==
    [op |-> op, ty |-> t, i |-> i, v |-> v, ret |-> ret]

BufSet(t, i, v) ==
    LET r == BufferSet(TheBuffer, t, i, v)
    IN  /\ comps' = [comps EXCEPT !.buf = r.buf]
        /\ hist' = <<BufferCall("set", t, i, v, r.ret)>>
        /\ UNCHANGED listframe

BufGet(op, t, i) ==
    /\ hist' = <<BufferCall(op, t, i, 0, BufferGet(TheBuffer, t, i))>>
    /\ UNCHANGED <<comps, listframe>>

BufLen ==
    /\ hist' = <<BufferCall("len", MadeFor, 0, 0, BufferLen(TheBuffer))>>
    /\ UNCHANGED <<comps, listframe>>

NextBuffer ==
    \/ \E t \in BufTypes, i \in 0..MaxBufIndex :
            \E v \in ValuesOf(t) : BufSet(t, i, v)
    \/ \E op \in {"get", "borrow", "borrow_mut"}, t \in BufTypes,
          i \in 0..MaxBufIndex : BufGet(op, t, i)
    \/ BufLen

SpecBuffer ==
    InitBuffer /\ [][NextBuffer]_vars

----------------------------------------------------------------------------
(* Lookups of what was and what was not registered (world.rs)              *)

\* the keys the passive systems are registered under
PassiveKeys ==
    {"p"}

\* the managers registered: key |-> concrete type
Managers ==
    [m |-> "M"]

\* the keys and types a caller may ask for
LookupKeys ==
    {"p", "m", "z"}

ManagerTypes ==
    {"M", "N"}

\* the component types a caller may name: "Z" was never registered
LookupCompIds ==
    CompIds \cup {"Z"}

Accessors ==
    {"add", "set", "get", "try_get", "has", "with", "try_with", "remove"}

\* an accessor that returns quietly when the type is not registered
CMAccessSilent(w, op, e, c, v) ==
    IF c \notin DOMAIN w.comps THEN w
    ELSE CASE op \in {"add", "set"} -> [w EXCEPT !.comps = CMSet(@, e, c, v)]
           [] op = "remove" -> [w EXCEPT !.comps = CMRemove(@, e, c)]
           [] OTHER -> w

\* ComponentManager::add .. ComponentManager::remove: the list of the type is
\* looked up first, None => error(..); the readers leave the storage alone
CMAccess(w, op, e, c, v) ==
    IF c \notin DOMAIN w.comps THEN Error(w)
    ELSE CASE op \in {"add", "set"} -> [w EXCEPT !.comps = CMSet(@, e, c, v)]
           [] op = "remove" -> [w EXCEPT !.comps = CMRemove(@, e, c)]
           [] OTHER -> w

\* SystemManager::update_passive (the registered passive system has an empty
\* process)
UpdatePassiveOp(w, key) ==
    IF key \in PassiveKeys THEN w ELSE Error(w)

\* World::with_manager / World::with_manager_mut with a closure that only
\* reads the manager
WithManagerOp(w, key, ty) ==
    IF key \in DOMAIN Managers
    THEN IF Managers[key] = ty THEN w ELSE Error(w)
    ELSE Error(w)

\* the record of the latest call: reg tells whether what it named was
\* registered (for a manager: under that key and with that type)
Lookup(op, e, key, reg) ==
    <<[op |-> op, e |-> e, key |-> key, reg |-> reg]>>

lookupframe ==
    <<pc, cur, queue, log>>

\* World::build_entity with the unit builder
LkBuild ==
    /\ ~panicked
    /\ em.next_id < MaxId
    /\ Commit(BuildEntityOp(Cur, Unit))
    /\ hist' = Lookup("build_entity", Nil, "", TRUE)
    /\ UNCHANGED lookupframe

\* a component accessor called for a live entity; get and with are called
\* for a component the entity has
LkAccess(op, e, c, v) ==
    /\ ~panicked
    /\ e \in Live(em)
    /\ (op \in {"get", "with"} /\ c \in CompIds) => CMHas(comps, e, c)
    /\ Commit(CMAccess(Cur, op, e, c, v))
    /\ hist' = Lookup(op, e, c, c \in CompIds)
    /\ UNCHANGED lookupframe

\* World::update_passive
LkUpdatePassive(key) ==
    /\ ~panicked
    /\ Commit(UpdatePassiveOp(Cur, key))
    /\ hist' = Lookup("update_passive", Nil, key, key \in PassiveKeys)
    /\ UNCHANGED lookupframe

LkWithManager(op, key, ty) ==
    /\ ~panicked
    /\ Commit(WithManagerOp(Cur, key, ty))
    /\ hist' = Lookup(op, Nil, <<key, ty>>,
                      key \in DOMAIN Managers /\ Managers[key] = ty)
    /\ UNCHANGED lookupframe

NextLookup ==
    \/ LkBuild
    \/ \E op \in Accessors, e \in Live(em), c \in LookupCompIds, v \in Values :
          LkAccess(op, e, c, v)
    \/ \E key \in LookupKeys : LkUpdatePassive(key)
    \/ \E op \in {"with_manager", "with_manager_mut"}, key \in LookupKeys,
          ty \in ManagerTypes : LkWithManager(op, key, ty)

SpecLookup ==
    Init /\ [][NextLookup]_vars

----------------------------------------------------------------------------
(* The process step: SystemManager::process (world.rs), the update of the  *)
(* systems! macro (lib.rs) and EntitySystem::process                       *)

\* the answers of is_active() of the systems, in the order of the fields
\* (kept in queue, which no operation of this specification uses otherwise;
\* in world.rs an inactive system is one registered by register_passive)
IsActive ==
    queue

\* the closures of this specification
ProcBuilders ==
    {Unit, Closure({"A"}, {}, "none")}

ProcModifiers ==
    {Closure({"A"}, {}, "none"), Closure({}, {"A"}, "none")}

RECURSIVE InOrder(_)
\* the entities of a set by slot index, then by id
InOrder(S) ==
    IF S = {} THEN <<>>
    ELSE LET e == CHOOSE x \in S : \A y \in S :
                      \/ x.index < y.index
                      \/ x.index = y.index /\ x.id <= y.id
         IN  <<e>> \o InOrder(S \ {e})

\* one call of a process function: of the system (e = Nil) or of its inner
\* unit for one entity
ProcessCall(s, e) ==
    [sys |-> s, e |-> e]

RECURSIVE ForEach(_, _)
ForEach(s, es) ==
    IF es = <<>> THEN <<>>
    ELSE <<ProcessCall(s, Head(es))>> \o ForEach(s, Tail(es))

\* a process step that hands every entity twice
EntitySystemProcessTwice(int, s) ==
    <<ProcessCall(s, Nil)>> \o ForEach(s, InOrder(int[s]) \o InOrder(int[s]))

\* EntitySystem::process: the inner unit is handed the interested entities
EntitySystemProcess(int, s) ==
    <<ProcessCall(s, Nil)>> \o ForEach(s, InOrder(int[s]))

RECURSIVE SMProcess(_, _)
\* SystemManager::process: every system of the list systems in turn
SMProcess(int, systems) ==
    IF systems = <<>> THEN <<>>
    ELSE EntitySystemProcess(int, Head(systems))
             \o SMProcess(int, Tail(systems))

\* the list systems of the SystemManager: what register was called with
Registered(flags) ==
    SelectSeq([s \in DOMAIN flags |-> s], LAMBDA s : flags[s])

RECURSIVE MacroUpdateAll(_, _, _)
\* an update that runs every field
MacroUpdateAll(int, flags, s) ==
    IF s > Len(flags) THEN <<>>
    ELSE EntitySystemProcess(int, s) \o MacroUpdateAll(int, flags, s + 1)

RECURSIVE MacroUpdate(_, _, _)
\* the update of the systems! macro, from field s on:
\* if self.field.is_active() { Process::process(&mut self.field, co) }
MacroUpdate(int, flags, s) ==
    IF s > Len(flags) THEN <<>>
    ELSE (IF flags[s] THEN EntitySystemProcess(int, s) ELSE <<>>)
             \o MacroUpdate(int, flags, s + 1)

InitProcess ==
    /\ em = EMNew
    /\ issued = <<>>
    /\ hist = <<>>
    /\ comps = CMNew
    /\ interested = [s \in Systems |-> {}]
    /\ build_queue = <<>>
    /\ modify_queue = <<>>
    /\ remove_queue = <<>>
    /\ pc = "idle"
    /\ cur = 0
    /\ queue \in [Systems -> BOOLEAN]
    /\ panicked = FALSE
    /\ applied = <<>>
    /\ log = <<>>
    /\ calls = <<>>

\* the latest operation: its name, its entity or system, its closure
Did(op, e, s, f) ==
    <<[op |-> op, e |-> e, sys |-> s, f |-> f]>>

\* World::build_entity
PrBuild(b) ==
    /\ ~panicked
    /\ em.next_id < MaxId
    /\ Commit(BuildEntityOp(Cur, b))
    /\ hist' = Did("activated", Create(em).entity, 0, b)
    /\ log' = <<>>
    /\ UNCHANGED <<pc, cur, queue>>

\* World::modify_entity
PrModify(e, m) ==
    /\ ~panicked
    /\ Commit(ModifyEntityOp(Cur, e, m))
    /\ hist' = Did("reactivated", e, 0, m)
    /\ log' = <<>>
    /\ UNCHANGED <<pc, cur, queue>>

\* World::remove_entity
PrRemove(e) ==
    /\ ~panicked
    /\ Commit(RemoveEntityOp(Cur, e))
    /\ hist' = Did("deactivated", e, 0, Unit)
    /\ log' = <<>>
    /\ UNCHANGED <<pc, cur, queue>>

\* World::update with nothing queued: SystemManager::process
PrUpdate ==
    /\ ~panicked
    /\ log' = SMProcess(interested, Registered(IsActive))
    /\ hist' = Did("update", Nil, 0, Unit)
    /\ Commit(Cur)
    /\ UNCHANGED <<pc, cur, queue>>

\* World::update with nothing queued: the update of the systems! macro
PrMacroUpdate ==
    /\ ~panicked
    /\ log' = MacroUpdate(interested, IsActive, 1)
    /\ hist' = Did("update", Nil, 0, Unit)
    /\ Commit(Cur)
    /\ UNCHANGED <<pc, cur, queue>>

\* process!(world, field), World::update_passive: one system run on demand
PrProcess(s) ==
    /\ ~panicked
    /\ log' = EntitySystemProcess(interested, s)
    /\ hist' = Did("process", Nil, s, Unit)
    /\ Commit(Cur)
    /\ UNCHANGED <<pc, cur, queue>>

\* EntityManager::iter: the values of the map entities
EntityIter(m) ==
    LiveSeq(m)

\* a filter that lets every entity through
FilteredEntityIterAll(es, a, cs) ==
    es

\* FilteredEntityIter::next, until None: the entities of the inner iterator
\* for which aspect.check holds
FilteredEntityIter(es, a, cs) ==
    SelectSeq(es, LAMBDA e : Check(a, cs, e))

\* for e in world.entities()
PrEntities ==
    /\ ~panicked
    /\ log' = ForEach(0, EntityIter(em))
    /\ hist' = Did("entities", Nil, 0, Unit)
    /\ Commit(Cur)
    /\ UNCHANGED <<pc, cur, queue>>

\* for e in world.entities().filter(aspect, &world), with the aspect of
\* system s
PrFilter(s) ==
    /\ ~panicked
    /\ log' = ForEach(0, FilteredEntityIter(EntityIter(em), SysAspects[s],
                                            comps))
    /\ hist' = Did("filter", Nil, s, Unit)
    /\ Commit(Cur)
    /\ UNCHANGED <<pc, cur, queue>>

NextProcess ==
    \/ \E b \in ProcBuilders : PrBuild(b)
    \/ \E e \in Handles, m \in ProcModifiers : PrModify(e, m)
    \/ \E e \in Handles : PrRemove(e)
    \/ PrUpdate
    \/ PrMacroUpdate
    \/ \E s \in Systems : PrProcess(s)
    \/ PrEntities
    \/ \E s \in Systems : PrFilter(s)

SpecProcess ==
    InitProcess /\ [][NextProcess]_vars

----------------------------------------------------------------------------
(* IntervalSystem (system/interval.rs, and the earlier one of              *)
(* system/mod.rs with its three hooks)                                     *)

\* the largest interval: u8
MaxInterval ==
    255

MaxSmallInterval ==
    3

MaxUpdates ==
    511

Intervals ==
    1..MaxSmallInterval \cup {MaxInterval}

\* IntervalSystem::new
IntervalNew(kind, n) ==
    [kind |-> kind, interval |-> n, ticker |-> 0]

\* a process that leaves the ticker where it is when the inner system runs
IntervalProcessNoReset(sys) ==
    LET t == (sys.ticker + 1) % 256
    IN  [sys |-> [sys EXCEPT !.ticker = t],
         inner |-> IF t = sys.interval THEN <<"process">> ELSE <<>>]

\* Process::process of IntervalSystem (interval.rs): self.ticker += 1 on a
\* u8, then the inner system runs if the ticker has reached the interval
IntervalProcess(sys) ==
    LET t == (sys.ticker + 1) % 256
    IN  IF t = sys.interval
        THEN [sys |-> [sys EXCEPT !.ticker = 0], inner |-> <<"process">>]
        ELSE [sys |-> [sys EXCEPT !.ticker = t], inner |-> <<>>]

\* System::preprocess of IntervalSystem (mod.rs)
IntervalPreprocess(sys) ==
    LET t == IF sys.ticker < sys.interval
             THEN (sys.ticker + 1) % 256 ELSE sys.ticker
    IN  [sys |-> [sys EXCEPT !.ticker = t],
         inner |-> IF t = sys.interval THEN <<"preprocess">> ELSE <<>>]

\* System::process of IntervalSystem (mod.rs)
IntervalOldProcess(sys) ==
    [sys |-> sys,
     inner |-> IF sys.ticker = sys.interval THEN <<"process">> ELSE <<>>]

\* System::postprocess of IntervalSystem (mod.rs)
IntervalPostprocess(sys) ==
    IF sys.ticker = sys.interval
    THEN [sys |-> [sys EXCEPT !.ticker = 0], inner |-> <<"postprocess">>]
    ELSE [sys |-> sys, inner |-> <<>>]

\* the hooks of one update, in the order the trait System documents them:
\* preprocess before processing, postprocess after it
HookOrder ==
    <<"preprocess", "process", "postprocess">>

Hook(name, sys) ==
    CASE name = "preprocess"  -> IntervalPreprocess(sys)
      [] name = "process"     -> IntervalOldProcess(sys)
      [] name = "postprocess" -> IntervalPostprocess(sys)

TheInterval ==
    comps

InitInterval ==
    /\ em = EMNew
    /\ issued = <<>>
    /\ hist = <<>>
    /\ comps \in {IntervalNew(k, n) : k \in {"interval.rs", "mod.rs"},
                                      n \in Intervals}
    /\ interested = [s \in Systems |-> {}]
    /\ build_queue = <<>>
    /\ modify_queue = <<>>
    /\ remove_queue = <<>>
    /\ pc = "idle"
    /\ cur = 0
    /\ queue = <<>>
    /\ panicked = FALSE
    /\ applied = <<>>
    /\ log = <<>>
    /\ calls = <<>>

intervalframe ==
    <<em, issued, interested, build_queue, modify_queue, remove_queue, queue,
      panicked, applied, calls>>

\* one update of a world that holds the IntervalSystem of interval.rs
IvUpdate ==
    /\ TheInterval.kind = "interval.rs"
    /\ cur < MaxUpdates
    /\ LET r == IntervalProcess(TheInterval)
       IN  /\ comps' = r.sys
           /\ log' = r.inner
    /\ cur' = cur + 1
    /\ hist' = <<[op |-> "update", e |-> Nil]>>
    /\ UNCHANGED <<pc, intervalframe>>

\* the next hook of an update of a world that holds the IntervalSystem of
\* mod.rs; pc is the hook this update has called last
IvHook ==
    /\ TheInterval.kind = "mod.rs"
    /\ cur < MaxUpdates
    /\ LET k == CASE pc = "idle" -> 1
                  [] pc = HookOrder[1] -> 2
                  [] pc = HookOrder[2] -> 3
           r == Hook(HookOrder[k], TheInterval)
       IN  /\ comps' = r.sys
           /\ log' = IF k = 1 THEN r.inner ELSE log \o r.inner
           /\ pc' = IF k = Len(HookOrder) THEN "idle" ELSE HookOrder[k]
           /\ cur' = IF k = Len(HookOrder) THEN cur + 1 ELSE cur
           /\ hist' = IF k = Len(HookOrder)
                      THEN <<[op |-> "update", e |-> Nil]>> ELSE <<>>
    /\ UNCHANGED intervalframe

NextInterval ==
    \/ IvUpdate
    \/ IvHook

SpecInterval ==
    InitInterval /\ [][NextInterval]_vars

----------------------------------------------------------------------------
(* The ticker of IntervalSystem for every interval a u8 can hold           *)

\* every interval the ticker is checked for: 0, the small ones and 255
TickerIntervals ==
    0..MaxSmallInterval \cup {MaxInterval}

\* self.ticker += 1 on a u8 whose value is 255
Overflows(sys) ==
    sys.ticker + 1 > MaxInterval

InitTicker ==
    /\ em = EMNew
    /\ issued = <<>>
    /\ hist = <<>>
    /\ comps \in {IntervalNew("interval.rs", n) : n \in TickerIntervals}
    /\ interested = [s \in Systems |-> {}]
    /\ build_queue = <<>>
    /\ modify_queue = <<>>
    /\ remove_queue = <<>>
    /\ pc = "idle"
    /\ cur = 0
    /\ queue = <<>>
    /\ panicked = FALSE
    /\ applied = <<>>
    /\ log = <<>>
    /\ calls = <<>>

\* what is remembered of a call of process: whether its addition overflowed
Ticked(over) ==
    <<[op |-> "process", e |-> Nil, overflow |-> over]>>

\* Process::process of IntervalSystem; an overflowing addition wraps in a
\* build without overflow checks
TkProcess ==
    /\ ~panicked
    /\ cur < MaxUpdates
    /\ LET r == IntervalProcess(TheInterval)
       IN  /\ comps' = r.sys
           /\ log' = r.inner
    /\ cur' = cur + 1
    /\ hist' = Ticked(Overflows(TheInterval))
    /\ UNCHANGED <<pc, intervalframe>>

\* Process::process of IntervalSystem in a build with overflow checks, when
\* the addition overflows: the call panics
TkOverflowPanic ==
    /\ ~panicked
    /\ cur < MaxUpdates
    /\ Overflows(TheInterval)
    /\ panicked' = TRUE
    /\ cur' = cur + 1
    /\ hist' = Ticked(TRUE)
    /\ log' = <<>>
    /\ UNCHANGED <<em, issued, comps, interested, build_queue, modify_queue,
                   remove_queue, pc, queue, applied, calls>>

NextTicker ==
    \/ TkProcess
    \/ TkOverflowPanic

SpecTicker ==
    InitTicker /\ [][NextTicker]_vars

----------------------------------------------------------------------------
(* LazySystem (system/lazy.rs) *)

MaxInits ==
    4

\* the systems a caller may install
InnerSystems ==
    {"s1", "s2", "s3"}

\* LazySystem::new
LazyNew ==
    [inner |-> <<>>]

\* LazySystem::is_initialised
LazyIsInitialised(l) ==
    l.inner # <<>>

\* an init that installs the system it is given every time
LazyInitReplace(l, sys) ==
    [lazy |-> [l EXCEPT !.inner = <<sys>>], ret |-> l.inner # <<>>]

\* LazySystem::init
LazyInit(l, sys) ==
    IF l.inner # <<>>
    THEN [lazy |-> l, ret |-> TRUE]
    ELSE [lazy |-> [l EXCEPT !.inner = <<sys>>], ret |-> FALSE]

\* LazySystem::init_override
LazyInitOverride(l, sys) ==
    [lazy |-> [l EXCEPT !.inner = <<sys>>], ret |-> LazyIsInitialised(l)]

\* process, activated, reactivated and deactivated of LazySystem: handed on
\* to the inner system if there is one
LazyForwardTwice(l, hook, e) ==
    IF l.inner # <<>>
    THEN <<Call(l.inner[1], hook, e), Call(l.inner[1], hook, e)>> ELSE <<>>

LazyForward(l, hook, e) ==
    IF l.inner # <<>> THEN <<Call(l.inner[1], hook, e)>> ELSE <<>>

\* is_active() of the systems a caller may install
InnerActive ==
    [s \in InnerSystems |-> s # "s2"]

\* System::is_active of LazySystem:
\* self.inner.as_ref().map(|sys| sys.is_active()).unwrap_or(false)
LazyIsActive(l) ==
    IF l.inner # <<>> THEN InnerActive[l.inner[1]] ELSE FALSE

\* the entities handed to the hooks (Nil for process, which takes none)
LazyArgs ==
    {[index |-> 0, id |-> 1], [index |-> 1, id |-> 2]}

TheLazy ==
    comps

\* the calls of init and init_override so far
Inits ==
    cur

InitLazy ==
    /\ em = EMNew
    /\ issued = <<>>
    /\ hist = <<>>
    /\ comps = LazyNew
    /\ interested = [s \in Systems |-> {}]
    /\ build_queue = <<>>
    /\ modify_queue = <<>>
    /\ remove_queue = <<>>
    /\ pc = "idle"
    /\ cur = 0
    /\ queue = <<>>
    /\ panicked = FALSE
    /\ applied = <<>>
    /\ log = <<>>
    /\ calls = <<>>

lazyframe ==
    <<em, issued, interested, build_queue, modify_queue, remove_queue, pc,
      queue, panicked, applied, log>>

\* the latest call: its name, its argument, what it returned and the inner
\* system before it
LazyCall(op, sys, ret, e) ==
    <<[op |-> op, sys |-> sys, ret |-> ret, before |-> TheLazy.inner,
       e |-> e]>>

LzInit(sys) ==
    /\ Inits < MaxInits
    /\ LET r == LazyInit(TheLazy, sys)
       IN  /\ comps' = r.lazy
           /\ hist' = LazyCall("init", sys, r.ret, Nil)
    /\ cur' = cur + 1
    /\ calls' = <<>>
    /\ UNCHANGED lazyframe

LzInitOverride(sys) ==
    /\ Inits < MaxInits
    /\ LET r == LazyInitOverride(TheLazy, sys)
       IN  /\ comps' = r.lazy
           /\ hist' = LazyCall("init_override", sys, r.ret, Nil)
    /\ cur' = cur + 1
    /\ calls' = <<>>
    /\ UNCHANGED lazyframe

LzIsInitialised ==
    /\ hist' = LazyCall("is_initialised", "", LazyIsInitialised(TheLazy), Nil)
    /\ calls' = <<>>
    /\ UNCHANGED <<comps, cur, lazyframe>>

LzForward(hook, e) ==
    /\ hook = "process" <=> e = Nil
    /\ hist' = LazyCall(hook, "", FALSE, e)
    /\ calls' = LazyForward(TheLazy, hook, e)
    /\ UNCHANGED <<comps, cur, lazyframe>>

LzIsActive ==
    /\ hist' = LazyCall("is_active", "", LazyIsActive(TheLazy), Nil)
    /\ calls' = <<>>
    /\ UNCHANGED <<comps, cur, lazyframe>>

NextLazy ==
    \/ \E sys \in InnerSystems : LzInit(sys)
    \/ \E sys \in InnerSystems : LzInitOverride(sys)
    \/ LzIsInitialised
    \/ \E hook \in {"process", "activated", "reactivated", "deactivated"},
          e \in LazyArgs \cup {Nil} : LzForward(hook, e)
    \/ LzIsActive

SpecLazy ==
    InitLazy /\ [][NextLazy]_vars

----------------------------------------------------------------------------
(* GroupManager (manager/group.rs) and PlayerManager (manager/player.rs)   *)
(* as the two managers of a World (world.rs)                               *)

\* entries ever pushed to one group
MaxGroupLen ==
    2

GroupKeys ==
    {"g", "h"}

PlayerSlots ==
    0..1

\* HashMap::new / VecMap::new
EmptyMap ==
    [k \in {} |-> Nil]

\* GroupManager::create
GroupCreate(g, key) ==
    IF key \in DOMAIN g THEN g ELSE MapInsert(g, key, <<>>)

\* GroupManager::delete
GroupDelete(g, key) ==
    MapRemove(g, key)

\* IndexMut for GroupManager, followed by Vec::push on the group
GroupPush(g, key, e) ==
    [g EXCEPT ![key] = Append(@, e)]

\* Vec::retain(|x| *x != *entity)
Retain(vec, e) ==
    SelectSeq(vec, LAMBDA x : x # e)

\* Manager::deactivated of GroupManager
GroupDeactivated(g, e) ==
    [k \in DOMAIN g |-> Retain(g[k], e)]

\* PlayerManager::add
PlayerAdd(p, i, e) ==
    MapInsert(p, i, e)

\* PlayerManager::remove
PlayerRemove(p, i) ==
    MapRemove(p, i)

\* a deactivated that frees only the lowest slot of the entity
PlayerDeactivatedLowest(p, e) ==
    LET r == {i \in DOMAIN p : p[i] = e}
    IN  IF r = {} THEN p
        ELSE MapRemove(p, CHOOSE i \in r : \A j \in r : i <= j)

\* Manager::deactivated of PlayerManager
PlayerDeactivated(p, e) ==
    LET r == {i \in DOMAIN p : p[i] = e}
    IN  [i \in DOMAIN p \ r |-> p[i]]

\* the loop over self.managers.values() of World::remove_entity / clear
ManagersDeactivated(w, e) ==
    [w EXCEPT !.groups  = GroupDeactivated(@, e),
              !.players = PlayerDeactivated(@, e)]

\* World::remove_entity of a world with no system and no component
MgRemoveEntityOp(w, e) ==
    IF IsValid(w.em, e)
    THEN [ManagersDeactivated(w, e) EXCEPT !.em = Remove(@, e)]
    ELSE Error(w)

RECURSIVE ManagersDeactivatedEach(_, _)
ManagersDeactivatedEach(w, es) ==
    IF es = <<>> THEN w
    ELSE ManagersDeactivatedEach(ManagersDeactivated(w, Head(es)), Tail(es))

\* World::clear of a world with no system and no component
MgClearOp(w) ==
    LET c == EMClear(w.em)
    IN  ManagersDeactivatedEach([w EXCEPT !.em = c.em], c.entities)

\* the groups are kept in comps and the player slots in interested, which no
\* operation of this specification uses otherwise
Groups ==
    comps

Players ==
    interested

MgWorld ==
    [em |-> em, groups |-> Groups, players |-> Players, panicked |-> panicked]

\* whether a manager holds the entity
Member(g, p, e) ==
    \/ \E k \in DOMAIN g : e \in SeqToSet(g[k])
    \/ \E i \in DOMAIN p : p[i] = e

InitManagers ==
    /\ em = EMNew
    /\ issued = <<>>
    /\ hist = <<>>
    /\ comps = EmptyMap
    /\ interested = EmptyMap
    /\ build_queue = <<>>
    /\ modify_queue = <<>>
    /\ remove_queue = <<>>
    /\ pc = "idle"
    /\ cur = 0
    /\ queue = <<>>
    /\ panicked = FALSE
    /\ applied = <<>>
    /\ log = <<>>
    /\ calls = <<>>

mgrframe ==
    <<build_queue, modify_queue, remove_queue, pc, cur, queue, applied, log,
      calls>>

\* the latest operation: its name, the entities whose deactivation it
\* delivered to the managers, and whether a manager held one of them
MgDid(op, es) ==
    <<[op |-> op, delivered |-> es,
       member |-> \E i \in DOMAIN es : Member(Groups, Players, es[i])]>>

MgCommit(w) ==
    /\ em' = w.em
    /\ comps' = w.groups
    /\ interested' = w.players
    /\ panicked' = w.panicked

\* World::build_entity with the unit builder
MgBuild ==
    /\ ~panicked
    /\ em.next_id < MaxId
    /\ em' = Create(em).em
    /\ issued' = Append(issued, Create(em).entity)
    /\ hist' = MgDid("build_entity", <<>>)
    /\ UNCHANGED <<comps, interested, panicked, mgrframe>>

MgGroupCreate(key) ==
    /\ ~panicked
    /\ comps' = GroupCreate(Groups, key)
    /\ hist' = MgDid("create", <<>>)
    /\ UNCHANGED <<em, issued, interested, panicked, mgrframe>>

MgGroupDelete(key) ==
    /\ ~panicked
    /\ comps' = GroupDelete(Groups, key)
    /\ hist' = MgDid("delete", <<>>)
    /\ UNCHANGED <<em, issued, interested, panicked, mgrframe>>

\* a group is indexed by a key it has
MgGroupPush(key, e) ==
    /\ ~panicked
    /\ key \in DOMAIN Groups
    /\ Len(Groups[key]) < MaxGroupLen
    /\ comps' = GroupPush(Groups, key, e)
    /\ hist' = MgDid("push", <<>>)
    /\ UNCHANGED <<em, issued, interested, panicked, mgrframe>>

MgPlayerAdd(i, e) ==
    /\ ~panicked
    /\ interested' = PlayerAdd(Players, i, e)
    /\ hist' = MgDid("add", <<>>)
    /\ UNCHANGED <<em, issued, comps, panicked, mgrframe>>

MgPlayerRemove(i) ==
    /\ ~panicked
    /\ interested' = PlayerRemove(Players, i)
    /\ hist' = MgDid("remove", <<>>)
    /\ UNCHANGED <<em, issued, comps, panicked, mgrframe>>

MgRemoveEntity(e) ==
    /\ ~panicked
    /\ MgCommit(MgRemoveEntityOp(MgWorld, e))
    /\ hist' = MgDid("remove_entity", IF IsValid(em, e) THEN <<e>> ELSE <<>>)
    /\ UNCHANGED <<issued, mgrframe>>

MgClear ==
    /\ ~panicked
    /\ MgCommit(MgClearOp(MgWorld))
    /\ hist' = MgDid("clear", EMClear(em).entities)
    /\ UNCHANGED <<issued, mgrframe>>

NextManagers ==
    \/ MgBuild
    \/ \E key \in GroupKeys : MgGroupCreate(key)
    \/ \E key \in GroupKeys : MgGroupDelete(key)
    \/ \E key \in GroupKeys, e \in Handles : MgGroupPush(key, e)
    \/ \E i \in PlayerSlots, e \in Handles : MgPlayerAdd(i, e)
    \/ \E i \in PlayerSlots : MgPlayerRemove(i)
    \/ \E e \in Handles : MgRemoveEntity(e)
    \/ MgClear

SpecManagers ==
    InitManagers /\ [][NextManagers]_vars

----------------------------------------------------------------------------
(* The interest trackers on their own: any notification, for any entity,   *)
(* in any state of the component storage                                   *)

\* two entities in two slots
TrackEntities ==
    {[index |-> 0, id |-> 1], [index |-> 1, id |-> 2]}

InitTrack ==
    /\ em = EMNew
    /\ issued = <<>>
    /\ hist = <<>>
    /\ WorldInit

trackframe == <<em, issued, build_queue, modify_queue, remove_queue, pc, cur,
                queue, panicked, applied>>

\* what is remembered of a notification: its kind, the tracker, the entity,
\* whether the entity was interested and whether the aspect held
Delivery(kind, s, e) ==
    [op |-> kind, sys |-> s, e |-> e, was |-> e \in interested[s],
     holds |-> Check(SysAspects[s], comps, e)]

\* the storage changes under the trackers
TrkSet(e) ==
    /\ comps' = CMSet(comps, e, "A", 1)
    /\ hist' = <<>>
    /\ calls' = <<>>
    /\ log' = <<>>
    /\ UNCHANGED <<interested, trackframe>>

TrkRemove(e) ==
    /\ comps' = CMRemove(comps, e, "A")
    /\ hist' = <<>>
    /\ calls' = <<>>
    /\ log' = <<>>
    /\ UNCHANGED <<interested, trackframe>>

\* SystemManager hands one notification to one EntitySystem
TrkDeliver(kind, s, e) ==
    LET r == Track(kind, interested[s], SysAspects[s], comps, s, e)
    IN  /\ interested' = [interested EXCEPT ![s] = r.interested]
        /\ calls' = r.calls
        /\ log' = InnerTrace(r.calls)
        /\ hist' = <<Delivery(kind, s, e)>>
        /\ UNCHANGED <<comps, trackframe>>

\* the same for a DataSystem with the aspect of system s
TrkDataActivated(s, e) ==
    LET r == DataActivated(interested[s], SysAspects[s], comps, s, e)
    IN  /\ interested' = [interested EXCEPT ![s] = r.interested]
        /\ calls' = r.calls
        /\ log' = InnerTrace(r.calls)
        /\ hist' = <<Delivery("data_activated", s, e)>>
        /\ UNCHANGED <<comps, trackframe>>

\* an InteractSystem whose two sets are interested[1] and interested[2]
TrkInteractDeactivated(e) ==
    LET r == InteractDeactivated(interested[1], interested[2], 1, e)
    IN  /\ interested' = [interested EXCEPT ![1] = r.interested_a,
                                            ![2] = r.interested_b]
        /\ calls' = r.calls
        /\ log' = InnerTrace(r.calls)
        /\ hist' = <<Delivery("interact_deactivated", 1, e)>>
        /\ UNCHANGED <<comps, trackframe>>

NextTrack ==
    \/ \E e \in TrackEntities : TrkSet(e)
    \/ \E e \in TrackEntities : TrkRemove(e)
    \/ \E kind \in {"activated", "reactivated", "deactivated"},
          s \in Systems, e \in TrackEntities : TrkDeliver(kind, s, e)
    \/ \E s \in Systems, e \in TrackEntities : TrkDataActivated(s, e)
    \/ \E e \in TrackEntities : TrkInteractDeactivated(e)

SpecTrack ==
    InitTrack /\ [][NextTrack]_vars

----------------------------------------------------------------------------
(* Claims about the entity manager, checked under SpecEM *)

Recycled ==
    em.indices.recycled

LiveIndices ==
    {em.entities[i] : i \in DOMAIN em.entities}

\* C3: no two valid entities hold the same slot index, and the free list
\* holds no index of a live entity and no index twice.
C3_UniqueSlots ==
    /\ \A a, b \in DOMAIN em.entities :
            a # b => em.entities[a] # em.entities[b]
    /\ \A i \in DOMAIN Recycled : Recycled[i] \notin LiveIndices
    /\ \A i, j \in DOMAIN Recycled : i # j => Recycled[i] # Recycled[j]
    /\ (hist # <<>> /\ hist[Len(hist)].op = "create") =>
            \A a \in DOMAIN em.entities :
                a # hist[Len(hist)].e.id =>
                    em.entities[a] # hist[Len(hist)].e.index

\* a recycled index has been reused while another is free, and the last
\* operation was a remove of a handle that was not valid
C3_Witness ==
    /\ Cardinality(DOMAIN em.entities) >= 2
    /\ Len(Recycled) >= 1
    /\ em.next_id > em.indices.next_index
    /\ Len(hist) = 3
    /\ hist[2].op = "remove"
    /\ hist[3] = hist[2]

\* C4: create -> remove (of the entity just created) -> create gives the
\* second entity the first one's index and another unique id; the first
\* handle is invalid after the remove and the second is valid.
C4_IndexReuse ==
    /\ (/\ Len(hist) >= 2
        /\ hist[Len(hist) - 1].op = "create"
        /\ hist[Len(hist)].op = "remove"
        /\ hist[Len(hist)].e = hist[Len(hist) - 1].e)
       => ~IsValid(em, hist[Len(hist)].e)
    /\ (/\ Len(hist) = 3
        /\ hist[1].op = "create"
        /\ hist[2].op = "remove"
        /\ hist[2].e = hist[1].e
        /\ hist[3].op = "create")
       => /\ hist[3].e.index = hist[1].e.index
          /\ hist[3].e.id # hist[1].e.id
          /\ ~IsValid(em, hist[1].e)
          /\ IsValid(em, hist[3].e)

\* create, remove, create has run while another index is free, so the
\* second create reused the index released just before
C4_Witness ==
    /\ Len(hist) = 3
    /\ hist[1].op = "create"
    /\ hist[2].op = "remove"
    /\ hist[2].e = hist[1].e
    /\ hist[3].op = "create"
    /\ Len(Recycled) >= 1
    /\ hist[3].e.id > hist[3].e.index + 2

\* C5: unique ids are minted 1, 2, 3, ... and never reused; every created
\* Entity differs from every earlier one; nil is never created, never valid.
C5_FreshIds ==
    /\ \A i \in DOMAIN issued : issued[i].id = i
    /\ \A i, j \in DOMAIN issued :
            i < j => issued[i].id < issued[j].id /\ issued[i] # issued[j]
    /\ \A i \in DOMAIN issued : issued[i] # Nil /\ issued[i].id # Nil.id
    /\ ~IsValid(em, Nil)

\* a later entity has reused the slot of an earlier one
C5_Witness ==
    \E i, j \in DOMAIN issued :
        /\ i < j
        /\ issued[i].index = issued[j].index
        /\ IsValid(em, issued[j])
        /\ ~IsValid(em, issued[i])

----------------------------------------------------------------------------
(* Claims about the World, checked under Spec *)

\* the entities a tracker with aspect a is meant to hold
Matching(a) ==
    {e \in Handles : IsValid(em, e) /\ Check(a, comps, e)}

\* the requests waiting in the World's queues or in update's snapshot
Pending ==
    build_queue \o modify_queue \o remove_queue \o queue

PendingNs ==
    {Pending[i].n : i \in DOMAIN Pending}

\* the phases in which update drains a queue
Drains ==
    {"build", "modify", "remove"}

\* C1: after every update() cycle completes, every tracker's interested set
\* is exactly the set of valid entities whose components satisfy its aspect.
C1_InterestConsistent ==
    hist = Returned =>
        \A s \in Systems : interested[s] = Matching(SysAspects[s])

\* C2: in every reachable state no component storage holds an entry for a
\* slot index that is in the allocator's free list.
C2_NoEntryForFreeSlot ==
    \A c \in CompIds : \A i \in DOMAIN Recycled :
        ~ListHas(comps[c], Recycled[i])

\* the place of a log entry's kind in the order of an update cycle
Rank(k) ==
    CASE k = "process" -> 0
      [] k = "build"   -> 1
      [] k = "modify"  -> 2
      [] k = "remove"  -> 3
      [] k = "error"   -> 4

\* the entries of queue q that were waiting before the drains of the latest
\* update began
Early(q) ==
    {i \in DOMAIN q : q[i].ph \in {"idle", "process"}}

\* C6: an update cycle runs the process step of every system, then the
\* waiting Build entries in enqueue order, then the waiting Modify entries in
\* enqueue order, then the waiting Remove entries in enqueue order; the
\* category, not the enqueue order, decides the order across categories.
C6_FixedOrder ==
    /\ \A i, j \in DOMAIN log :
            i < j => /\ Rank(log[i].k) <= Rank(log[j].k)
                     /\ log[i].k = log[j].k => log[i].n < log[j].n
    /\ (\E i \in DOMAIN log : log[i].k # "process") =>
            \A s \in Systems : \E i \in DOMAIN log : log[i] = ProcessEntry(s)
    /\ pc \in {"modify", "remove"} => Early(build_queue) = {}
    /\ pc = "remove" => /\ Early(modify_queue) = {}
                        /\ \A i \in DOMAIN modify_queue :
                                modify_queue[i].ph # "build"
    /\ \A i \in DOMAIN queue : \A j \in DOMAIN log :
            log[j].k = pc => log[j].n < queue[i].n

\* an update has applied two Modify entries of an entity and then its Remove
\* entry, which was enqueued before both
C6_Witness ==
    /\ hist = Returned
    /\ \E i, j, k \in DOMAIN log :
            /\ i < j /\ j < k
            /\ log[i].k = "modify" /\ log[j].k = "modify"
            /\ log[k].k = "remove"
            /\ log[i].e = log[k].e
            /\ log[k].n < log[i].n

\* C7: enqueueing a request during a process step changes no storage and no
\* interested set and delivers no hook; no request is applied, no interested
\* set changes and no hook is delivered until the last process step is over.
C7_EnqueueDeferred ==
    [][pc = "process" =>
            /\ interested' = interested
            /\ calls' = <<>>
            /\ \A n \in DOMAIN applied : applied'[n] = applied[n]
            /\ \A n \in DOMAIN applied' \ DOMAIN applied : applied'[n] = 0
            /\ Len(applied') > Len(applied) => comps' = comps]_vars

\* the last process step runs with a request of each category enqueued during
\* this cycle's process steps, none of them applied
C7_Witness ==
    /\ pc = "process" /\ cur = Len(SysAspects)
    /\ \E i \in DOMAIN build_queue : build_queue[i].ph = "process"
    /\ \E i \in DOMAIN modify_queue :
            /\ modify_queue[i].ph = "process"
            /\ IsValid(em, modify_queue[i].e)
            /\ ~CMHas(comps, modify_queue[i].e, "A")
    /\ \E i \in DOMAIN remove_queue :
            /\ remove_queue[i].ph = "process"
            /\ IsValid(em, remove_queue[i].e)

C9_BuildModifyRemove ==
    hist = Returned =>
        \A i, j, k \in DOMAIN log :
            (/\ log[i].k = "build" /\ log[j].k = "modify"
             /\ log[k].k = "remove"
             /\ log[i].e = log[j].e /\ log[j].e = log[k].e
             /\ log[i].n < log[j].n /\ log[j].n < log[k].n
             /\ log[j].f.add # {})
            => /\ ~IsValid(em, log[k].e)
               /\ \A c \in CompIds : ~CMHas(comps, log[k].e, c)
               /\ \A s \in Systems : log[k].e \notin interested[s]

\* update() has returned after applying Build, Modify and Remove entries of
\* one entity that were enqueued in this order
C9_Witness ==
    /\ hist = Returned
    /\ \E i, j, k \in DOMAIN log :
            /\ log[i].k = "build" /\ log[j].k = "modify"
            /\ log[k].k = "remove"
            /\ log[i].e = log[j].e /\ log[j].e = log[k].e
            /\ log[i].n < log[j].n /\ log[j].n < log[k].n
            /\ log[j].f.add # {}

----------------------------------------------------------------------------
(* Claims about the interest trackers *)

\* how often a hook for entity e occurs in a sequence of calls
CountHook(tr, hook, e) ==
    Cardinality({i \in DOMAIN tr : tr[i].hook = hook /\ tr[i].e = e})

\* the step delivers a notification of this kind
Delivers(kind) ==
    /\ hist' # <<>>
    /\ hist'[1].op = kind

\* the step leaves every interested set but that of system s alone
OthersKept(s) ==
    \A t \in Systems \ {s} : interested'[t] = interested[t]

C11_Step ==
    Delivers("reactivated") =>
        LET s   == hist'[1].sys
            e   == hist'[1].e
            was == e \in interested[s]
            ok  == Check(SysAspects[s], comps, e)
        IN  /\ OthersKept(s)
            /\ (~was /\ ok) =>
                   /\ interested'[s] = interested[s] \cup {e}
                   /\ calls' = <<Call(s, "activated", e)>>
            /\ (was /\ ok) =>
                   /\ interested'[s] = interested[s]
                   /\ calls' = <<Call(s, "reactivated", e)>>
            /\ (was /\ ~ok) =>
                   /\ interested'[s] = interested[s] \ {e}
                   /\ calls' = <<Call(s, "deactivated", e)>>
                   /\ CountHook(log', "deactivated", e) = 1
                   /\ CountHook(log', "activated", e) = 0
            /\ (~was /\ ~ok) =>
                   /\ interested'[s] = interested[s]
                   /\ calls' = <<>>

\* C11: a reactivation-check for entity e does exactly one of four things:
\* e not interested and the aspect holds: e is added and on_activated is
\* called once; e interested and the aspect holds: on_reactivated is called
\* once; e interested and the aspect fails: e is removed and the inner unit
\* sees on_deactivated once and on_activated not at all; e not interested
\* and the aspect fails: nothing happens.
C11_ReactivationCases ==
    [][C11_Step]_vars

\* a reactivation-check has removed an interested entity whose shape no
\* longer matches, and the inner unit saw the one on_deactivated
C11_Witness ==
    /\ hist # <<>>
    /\ hist[1].op = "reactivated"
    /\ hist[1].was
    /\ ~hist[1].holds
    /\ hist[1].e \notin interested[hist[1].sys]
    /\ log = <<Call(hist[1].sys, "deactivated", hist[1].e)>>

C12_Step ==
    (Delivers("activated") \/ Delivers("data_activated")) =>
        LET s   == hist'[1].sys
            e   == hist'[1].e
            was == e \in interested[s]
            ok  == Check(SysAspects[s], comps, e)
        IN  /\ OthersKept(s)
            /\ was =>
                   /\ interested'[s] = interested[s]
                   /\ calls' = <<>>
            /\ (~was /\ ok) =>
                   /\ interested'[s] = interested[s] \cup {e}
                   /\ CountHook(calls', "activated", e) = 1
            /\ (~was /\ ~ok) =>
                   /\ interested'[s] = interested[s]
                   /\ calls' = <<>>

\* C12: an activation-check for an entity that is already interested is a
\* no-op: no inner hook is called and a DataSystem does not initialise the
\* entity's data again; for an entity that is not interested the tracker adds
\* it and calls on_activated exactly when the aspect holds.
C12_ActivationNoOp ==
    [][C12_Step]_vars

C13_Step ==
    /\ Delivers("deactivated") =>
            LET s == hist'[1].sys
                e == hist'[1].e
            IN  /\ OthersKept(s)
                /\ interested'[s] = interested[s] \ {e}
                /\ calls' = IF e \in interested[s]
                            THEN <<Call(s, "deactivated", e)>>
                            ELSE <<>>
                /\ CountHook(log', "deactivated", e)
                       = IF e \in interested[s] THEN 1 ELSE 0
    /\ Delivers("interact_deactivated") =>
            LET e == hist'[1].e
            IN  /\ \A t \in Systems : interested'[t] = interested[t] \ {e}
                /\ CountHook(calls', "deactivated", e)
                       = Cardinality({t \in Systems : e \in interested[t]})
                /\ Len(calls') = CountHook(calls', "deactivated", e)

DefaultReactivations(tr) ==
    {i \in DOMAIN tr : tr[i].hook = "reactivated" /\ ~Overrides[tr[i].sys]}

\* C14: an inner unit that does not override on_reactivated runs it as
\* on_deactivated followed by on_activated, for the same entity, each exactly
\* once and in that order; the un-overridden on_activated and on_deactivated
\* do nothing (they enter no further hook).
C14_DefaultReactivated ==
    /\ \A i \in DefaultReactivations(log) :
            /\ i + 2 <= Len(log)
            /\ log[i + 1] = Call(log[i].sys, "deactivated", log[i].e)
            /\ log[i + 2] = Call(log[i].sys, "activated", log[i].e)
            /\ CountHook(log, "deactivated", log[i].e) = 1
            /\ CountHook(log, "activated", log[i].e) = 1
    /\ Len(log) = Len(calls) + 2 * Cardinality(DefaultReactivations(calls))

\* a reactivation-check reached an inner unit that does not override
\* on_reactivated, and the unit ran the two default hooks
C14_Witness ==
    /\ hist # <<>>
    /\ hist[1].op = "reactivated"
    /\ ~Overrides[hist[1].sys]
    /\ calls = <<Call(hist[1].sys, "reactivated", hist[1].e)>>
    /\ Len(log) = 3

----------------------------------------------------------------------------
(* Claims about invalid entities and about removal *)

\* the call that led from w to r failed loudly and changed neither a
\* component storage nor an interested set
FailsLoudly(w, r) ==
    /\ r.panicked
    /\ r.comps = w.comps
    /\ r.interested = w.interested

\* C15: every entity-data accessor of the World (set, has, immediate
\* modify_entity, the accessors handed to systems) called with an Entity that
\* is not valid fails loudly and changes no component storage and no
\* interested set.
C15_InvalidFailsLoudly ==
    \A e \in Handles :
        (~IsValid(em, e) /\ ~panicked) =>
            /\ FailsLoudly(Cur, SetComponentOp(Cur, e, "A", 2))
            /\ HasComponentOp(Cur, e, "A").panicked
            /\ FailsLoudly(Cur, EntityDataSet(Cur, e, "A", 2))
            /\ \A m \in Modifiers : FailsLoudly(Cur, ModifyEntityOp(Cur, e, m))

\* the call that led from w to r erased no mapping, released no index,
\* purged no component and delivered no notification
NoEffect(w, r) ==
    /\ r.em = w.em
    /\ r.comps = w.comps
    /\ r.interested = w.interested
    /\ r.calls = <<>>

\* C16: removing an entity that is not valid (never created, already
\* removed, or a stale handle whose slot has been recycled) changes no state:
\* no mapping is erased, no index released, no component purged, no
\* deactivation delivered, the slot's new occupant unaffected; this holds for
\* EntityManager::remove, World::remove_entity and drained Remove entries.
C16_InvalidRemoveNoEffect ==
    \A e \in Handles \cup {Nil} :
        ~IsValid(em, e) =>
            /\ Remove(em, e) = em
            /\ NoEffect(Cur, RemoveEntityOp(Cur, e))
            /\ NoEffect(Cur, DrainEntry(Cur, "remove", Entry(Cur, e, Unit)))

\* update() has drained a Remove entry for a stale handle whose slot has a
\* new occupant, and the occupant still has its component
C16_Witness ==
    /\ pc = "remove"
    /\ log # <<>>
    /\ log[Len(log)].k = "error"
    /\ ~IsValid(em, log[Len(log)].e)
    /\ \E i \in DOMAIN issued :
            /\ IsValid(em, issued[i])
            /\ issued[i].index = log[Len(log)].e.index
            /\ CMHas(comps, issued[i], "A")

\* the position of a statement among the steps st
StepAt(st, name) ==
    CHOOSE i \in DOMAIN st : st[i].step = name

\* the world a step of st starts from, w being the world before the first
WorldBefore(w, st, i) ==
    IF i = 1 THEN w ELSE st[i - 1].w

\* how often slot index i is in the free list
Released(m, i) ==
    Cardinality({k \in DOMAIN m.indices.recycled : m.indices.recycled[k] = i})

\* entity e, live in world w, leaves through the steps st in the order
\* notify, purge, release
LeavesInOrder(w, st, e) ==
    LET n == StepAt(st, "notify")
        p == StepAt(st, "purge")
        r == StepAt(st, "release")
    IN  /\ n < p
        /\ p < r
        /\ IsValid(WorldBefore(w, st, n).em, e)
        /\ WorldBefore(w, st, n).comps = w.comps
        /\ \A s \in Systems : e \notin st[n].w.interested[s]
        /\ IsValid(WorldBefore(w, st, p).em, e)
        /\ \A c \in CompIds : ~CMHas(st[p].w.comps, e, c)
        /\ ~IsValid(st[r].w.em, e)
        /\ Released(st[r].w.em, e.index) = 1

\* C17: whenever a valid entity leaves the world (remove_entity, a drained
\* Remove entry, or clear), the deactivation notification comes first, while
\* the entity is still valid and its components still present, then the purge
\* of its slot in every storage, and only then the release of its identity
\* and index, which is released exactly once.
C17_LeavingOrder ==
    \A e \in Live(em) :
        /\ LeavesInOrder(Cur, RemoveSteps(Cur, e), e)
        /\ LeavesInOrder(Cur, ClearSteps(Cur), e)

----------------------------------------------------------------------------
(* Claims about the aspect *)

\* the component signature of entity e
Sig(cs, e) ==
    {c \in DOMAIN cs : CMHas(cs, e, c)}

\* the predicate of the claim, on the three requirements as sets
Matches(all, any, none, S) ==
    /\ (all = {} \/ all \subseteq S)
    /\ none \cap S = {}
    /\ (any = {} \/ any \cap S # {})

\* C18: for every aspect (all, any, none) and every component signature S,
\* check returns true iff (all is empty or all is a subset of S) and (none
\* and S are disjoint) and (any is empty or any intersects S); the nil aspect
\* matches every entity; the aspect! predicate (all / none only) agrees with
\* the formula with any empty.
C18_CheckFormula ==
    LET a == TheAspect
        S == Sig(comps, TheEntity)
        f == Matches(SeqToSet(a.all), SeqToSet(a.any), SeqToSet(a.none), S)
        g == Matches(SeqToSet(a.all), {}, SeqToSet(a.none), S)
    IN  /\ Check(a, comps, TheEntity) <=> f
        /\ Check(AspectNil, comps, TheEntity)
        /\ MacroCheck(a.all, a.none, comps, TheEntity) <=> g
        /\ log # <<>> => /\ log[1].ret <=> f
                         /\ log[1].macro <=> g

\* check has accepted an entity for an aspect with all three requirements
C18_Witness ==
    /\ log # <<>>
    /\ log[1].ret
    /\ TheAspect.all # <<>>
    /\ TheAspect.any # <<>>
    /\ TheAspect.none # <<>>

\* the vectors of at most one component id
Vecs1 ==
    {v \in Vecs : Len(v) <= 1}

AspectKinds ==
    {"all", "any", "none"}

\* C19: with_all / with_any / with_none only add the given types to their
\* requirement and leave the other two alone, and check depends only on the
\* three sets: the same combinators chained in any order, or with duplicated
\* types, give the same check result (for_all(A).with_all(B) is equivalent
\* to for_all(B).with_all(A)).
C19_CombinatorsAdditive ==
    LET a  == TheAspect
        ck(b) == Check(b, comps, TheEntity)
    IN  /\ \A k \in AspectKinds, v \in Vecs :
                /\ SeqToSet(With(a, k, v)[k]) = SeqToSet(a[k]) \cup SeqToSet(v)
                /\ \A j \in AspectKinds \ {k} : With(a, k, v)[j] = a[j]
                /\ ck(With(a, k, v \o v)) = ck(With(a, k, v))
        /\ \A k \in AspectKinds, j \in AspectKinds, v \in Vecs1, u \in Vecs1 :
                ck(With(With(a, k, v), j, u)) = ck(With(With(a, j, u), k, v))
        /\ \A v \in Vecs, u \in Vecs1 :
                ck(WithAll(ForAll(v), u)) = ck(WithAll(ForAll(u), v))
        /\ \A x \in {v \in Vecs : SeqToSet(v) = SeqToSet(a.all)},
              y \in {v \in Vecs : SeqToSet(v) = SeqToSet(a.any)},
              z \in {v \in Vecs : SeqToSet(v) = SeqToSet(a.none)} :
                ck([all |-> x, any |-> y, none |-> z]) = ck(a)

\* a combinator has repeated a type that the aspect already required, and
\* check has accepted the entity
C19_Witness ==
    /\ hist[1].op = "with"
    /\ Len(TheAspect.all) = 2
    /\ TheAspect.all[1] = TheAspect.all[2]
    /\ TheAspect.none # <<>>
    /\ log # <<>>
    /\ log[1].ret

----------------------------------------------------------------------------
(* Claims about the component storages *)

Writes ==
    {"add", "insert", "set"}

\* the call before this step's call was made on the same list and slot
SameEntry ==
    /\ hist # <<>>
    /\ hist[1].c = hist'[1].c
    /\ hist[1].i = hist'[1].i

C20_Step ==
    hist' # <<>> =>
        LET h   == hist'[1]
            old == comps[h.c]
            new == comps'[h.c]
        IN  /\ \A c \in ListIds, i \in Slots :
                    (c # h.c \/ i # h.i) =>
                        ListGet(comps'[c], i) = ListGet(comps[c], i)
            /\ h.op \in Writes =>
                    /\ ListGet(new, h.i) = <<h.v>>
                    /\ ListHas(new, h.i)
                    /\ h.ret = ListGet(old, h.i)
            /\ h.op \in {"remove", "clear"} =>
                    /\ ListGet(new, h.i) = <<>>
                    /\ ~ListHas(new, h.i)
            /\ h.op = "remove" => h.ret = ListGet(old, h.i)
            /\ h.op = "get" => (new = old /\ h.ret = ListGet(old, h.i))
            /\ h.op = "has" => (new = old /\ h.yes = (ListGet(old, h.i) # <<>>))
            /\ (SameEntry /\ hist[1].op \in Writes) =>
                    /\ h.op = "get" => h.ret = <<hist[1].v>>
                    /\ h.op = "has" => h.yes
                    /\ h.op \in Writes \cup {"remove"} => h.ret = <<hist[1].v>>
            /\ (SameEntry /\ hist[1].op \in {"remove", "clear"}) =>
                    /\ h.op = "get" => h.ret = <<>>
                    /\ h.op = "has" => ~h.yes
                    /\ h.op \in Writes \cup {"remove"} => h.ret = <<>>

\* C20: each component storage behaves as a map from entity slot to value:
\* add / insert / set store the value and return the value stored before
\* (None if there was none), remove deletes the entry and returns the removed
\* value (None if absent, so a second remove returns None), get / has reflect
\* the most recent write for the entity, and the entries of other entities and
\* of other component types are unchanged by each operation.
C20_StorageIsMap ==
    [][C20_Step]_vars

\* remove has returned the value that a set had stored over an earlier one,
\* while another entity and another type kept their entries
C20_Witness ==
    /\ hist # <<>>
    /\ hist[1].op = "remove"
    /\ hist[1].ret = <<2>>
    /\ \E c \in ListIds \ {hist[1].c} : ListHas(comps[c], hist[1].i)
    /\ \E i \in Slots \ {hist[1].i} : ListHas(comps[hist[1].c], i)

\* C21: the storage strategy is not observable: for every sequence of add,
\* insert, set, remove, get, has, borrow, clear and indexed-access calls, a
\* Hot (VecMap) and a Cold (HashMap) ComponentList return identical results at
\* every step and hold the same set of (slot, value) entries.
C21_HotEqualsCold ==
    /\ VecMapEntries(comps.hot) = ListEntries(comps.cold)
    /\ hist # <<>> => hist[1].hot = hist[1].cold

\* an indexed access has found the value in both lists, in a Hot list that
\* has an emptied slot below the entry
C21_Witness ==
    /\ hist # <<>>
    /\ hist[1].op = "index"
    /\ hist[1].hot.ok
    /\ hist[1].hot.val = <<2>>
    /\ \E k \in 1..Len(comps.hot) : k < hist[1].i + 1 /\ comps.hot[k] = <<>>

C22_Step ==
    (/\ hist' # <<>>
     /\ hist'[1].op \notin Writes \cup {"remove", "clear"}
     /\ ListGet(comps.cold, hist'[1].i) = <<>>
     /\ VecMapGet(comps.hot, hist'[1].i) = <<>>) =>
        LET h == hist'[1]
        IN  /\ comps' = comps
            /\ h.op \in {"index", "index_mut", "get_component",
                          "with_component"} =>
                    (~h.hot.ok /\ ~h.cold.ok)
            /\ h.op \in {"get", "borrow", "has", "try_component",
                          "try_with_component"} =>
                    /\ h.hot = Returns(<<>>, FALSE)
                    /\ h.cold = Returns(<<>>, FALSE)

\* C22: trusted access to a component the entity does not have (indexed
\* access on a ComponentList, World::get_component, World::with_component)
\* fails loudly, while the non-trusted accessors (ComponentList::get / borrow
\* / has, World::try_component, World::try_with_component) return None /
\* false and never fail; in neither case is a storage entry created or
\* changed.
C22_MissingComponent ==
    [][C22_Step]_vars

\* an indexed access has failed on a slot without an entry, in lists that
\* hold an entry for another slot
C22_Witness ==
    /\ hist # <<>>
    /\ hist[1].op = "index"
    /\ ~hist[1].hot.ok
    /\ ~hist[1].cold.ok
    /\ comps.cold # <<>>
    /\ hist[1].i \notin DOMAIN comps.cold

----------------------------------------------------------------------------
(* Claims about the Buffer *)

C24_Step ==
    (/\ hist' # <<>>
     /\ hist'[1].op \in {"set", "get", "borrow", "borrow_mut"}
     /\ hist'[1].ty # MadeFor) =>
        /\ ~hist'[1].ret.ok
        /\ comps' = comps

\* C24: accessing a Buffer with a type U other than the type T it was made
\* for always fails fast and never returns or overwrites a value: set, get,
\* borrow and borrow_mut with U fail, also when T and U have the same size.
C24_WrongTypeFails ==
    [][C24_Step]_vars

C28_Step ==
    (/\ hist # <<>>
     /\ hist' # <<>>
     /\ hist[1].op = "set"
     /\ hist[1].ty = MadeFor
     /\ hist'[1].op = "get"
     /\ hist'[1].ty = MadeFor
     /\ hist'[1].i = hist[1].i) =>
        /\ hist[1].ret.ok
        /\ hist'[1].ret = Returns(<<hist[1].v>>, FALSE)

\* C28: a component of a zero-sized type is stored and read like any other:
\* for every stride, 0 included, set(i, v) followed by get(i) completes
\* without panicking and returns Some(v).
C28_SetThenGet ==
    [][C28_Step]_vars
\* the latest call named something that was not registered
Unregistered ==
    hist # <<>> /\ ~hist[1].reg

C23_Step ==
    Unregistered' =>
        /\ panicked'
        /\ UNCHANGED <<em, issued, comps, interested, build_queue,
                       modify_queue, remove_queue, applied>>

\* C23: a component accessor for an unregistered component type,
\* update_passive for an unregistered key and with_manager(_mut) for an
\* unregistered key or a wrong manager type end in error() and change nothing
C23_UnregisteredIsFatal ==
    [][C23_Step]_vars

\* an unregistered type was set on an entity that carries a component
C23_Witness ==
    /\ Unregistered /\ panicked
    /\ hist[1].op = "set"
    /\ CMHas(comps, hist[1].e, "A")

\* how often call x occurs in the sequence l
Times(l, x) ==
    Cardinality({i \in DOMAIN l : l[i] = x})

\* the calls the step delivers to system s
CallsTo(cl, s) ==
    SelectSeq(cl, LAMBDA c : c.sys = s)

\* the step is an update
Updates ==
    hist' # <<>> /\ hist'[1].op = "update"

\* what tracker s does with the notification the step delivers
Tracked(s) ==
    Track(hist'[1].op, interested[s], SysAspects[s],
          IF hist'[1].op = "deactivated" THEN comps ELSE comps',
          s, hist'[1].e)

C25_Step ==
    \A s \in Systems : ~IsActive[s] =>
        /\ Updates => \A i \in DOMAIN log' : log'[i].sys # s
        /\ (hist' # <<>> /\ ~panicked'
                /\ hist'[1].op \in {"activated", "reactivated", "deactivated"})
            => /\ interested'[s] = Tracked(s).interested
               /\ CallsTo(calls', s) = Tracked(s).calls
        /\ (hist' # <<>> /\ hist'[1].op = "process" /\ hist'[1].sys = s)
            => \A e \in interested[s] : Times(log', ProcessCall(s, e)) = 1

\* C25: a system whose is_active() is false is not run by the process step
\* of update, is notified of every activation, reactivation and deactivation
\* as its tracker prescribes, and is run when it is processed on demand
C25_InactiveSystem ==
    [][C25_Step]_vars

\* an inactive system with an interested entity was passed over by update
C25_Witness ==
    /\ hist # <<>> /\ hist[1].op = "update"
    /\ \E s \in Systems : ~IsActive[s] /\ interested[s] # {}
    /\ \E s \in Systems : IsActive[s] /\ interested[s] # {}

C26_Step ==
    Updates =>
        /\ \A s \in Systems : IsActive[s] =>
              /\ Times(log', ProcessCall(s, Nil)) = 1
              /\ \A e \in Handles \cup interested[s] :
                    Times(log', ProcessCall(s, e))
                        = IF e \in interested[s] THEN 1 ELSE 0
        /\ (/\ hist # <<>> /\ hist[1].op = "activated"
            /\ Check(SysAspects[1], comps, hist[1].e)
            /\ IsActive[1])
            => Times(log', ProcessCall(1, hist[1].e)) = 1

\* C26: in an update the process step of every active system is invoked
\* once and is handed each entity of its interested set once and no other
\* entity; an entity built with matching components just before the update
\* is processed in that update
C26_ProcessedOnce ==
    [][C26_Step]_vars

\* an entity was built with the component, and the update that followed
\* handed two entities to the system
C26_Witness ==
    /\ hist # <<>> /\ hist[1].op = "update"
    /\ IsActive[1] /\ Cardinality(interested[1]) = 2
    /\ Len(log) >= 3

\* the latest operation was op
Last(op) ==
    hist # <<>> /\ hist[1].op = op

\* C27: iterating the entities yields every valid entity once and no removed
\* one, in finitely many steps; the filtered iteration yields the valid
\* entities for which the aspect check holds against the storages, once each
C27_Iteration ==
    /\ Last("entities") =>
          /\ \A e \in Handles : Times(log, ProcessCall(0, e))
                                    = IF IsValid(em, e) THEN 1 ELSE 0
          /\ Len(log) = Cardinality(Live(em))
    /\ Last("filter") =>
          LET a == SysAspects[hist[1].sys]
          IN  /\ \A e \in Handles : Times(log, ProcessCall(0, e))
                    = IF IsValid(em, e) /\ Check(a, comps, e) THEN 1 ELSE 0
              /\ \A i \in DOMAIN log : log[i].e \in Handles

\* a filtered iteration yielded one of two valid entities
C27_Witness ==
    /\ Last("filter")
    /\ Len(log) = 1
    /\ Cardinality(Live(em)) = 2

\* an update of the world has returned
UpdateDone ==
    Last("update") /\ pc = "idle"

\* C29: with an interval N of 1..255 the inner system's process runs in the
\* N-th, 2N-th, ... update, once, and in no other update
C29_EveryNth ==
    UpdateDone =>
        Times(log, "process")
            = IF cur % TheInterval.interval = 0 THEN 1 ELSE 0

\* the inner system of an interval of 255 ran in update 510
C29_Witness ==
    /\ UpdateDone
    /\ TheInterval.interval = MaxInterval
    /\ cur = 2 * MaxInterval
    /\ Times(log, "process") = 1

\* C30: init installs its argument only into a LazySystem that is not
\* initialised and returns whether it was initialised; init_override always
\* installs its argument and returns whether a system was installed before;
\* is_initialised is true exactly when init or init_override has been called
C30_LazyInit ==
    /\ Last("init") =>
          /\ hist[1].ret = (hist[1].before # <<>>)
          /\ TheLazy.inner = IF hist[1].before # <<>> THEN hist[1].before
                             ELSE <<hist[1].sys>>
    /\ Last("init_override") =>
          /\ hist[1].ret = (hist[1].before # <<>>)
          /\ TheLazy.inner = <<hist[1].sys>>
    /\ Last("is_initialised") => hist[1].ret = (Inits > 0)
    /\ LazyIsInitialised(TheLazy) = (Inits > 0)

\* init was called with another system than the installed one and said so
C30_Witness ==
    /\ Last("init")
    /\ hist[1].ret
    /\ hist[1].sys \notin SeqToSet(TheLazy.inner)

\* C39: for every interval of 0..255 the addition to the 8-bit ticker never
\* overflows, and after each call of process the ticker is in 0..interval-1
C39_TickerInRange ==
    Last("process") =>
        /\ ~hist[1].overflow
        /\ TheInterval.ticker \in 0..(TheInterval.interval - 1)

\* C40: a LazySystem that is not initialised does nothing on process and
\* on the three notifications and is not active; an initialised one hands
\* each of these calls to its inner system once, with the entity it was
\* given, and is active exactly if the inner system is
C40_LazyForwards ==
    /\ (hist # <<>> /\ hist[1].op \in {"process", "activated", "reactivated",
                                       "deactivated"})
        => calls = IF hist[1].before = <<>> THEN <<>>
                   ELSE <<Call(hist[1].before[1], hist[1].op, hist[1].e)>>
    /\ Last("is_active")
        => hist[1].ret = IF hist[1].before = <<>> THEN FALSE
                         ELSE InnerActive[hist[1].before[1]]

\* a reactivation of an entity was handed to the installed system
C40_Witness ==
    /\ Last("reactivated")
    /\ hist[1].e # Nil
    /\ Len(calls) = 1
    /\ ~LazyIsActive(TheLazy)

\* C32: after any sequence of create and remove, count() is next_index
\* minus the length of the free list, and is the number of valid entities
C32_CountIsLive ==
    /\ Count(em) = em.indices.next_index - Len(em.indices.recycled)
    /\ Count(em) = Cardinality(Live(em))
    /\ Count(em) = Cardinality({e \in SeqToSet(issued) : IsValid(em, e)})

\* two entities are valid, one slot is free, and the latest remove was given
\* a handle that was no longer valid
C32_Witness ==
    /\ Count(em) = 2
    /\ Len(em.indices.recycled) = 1
    /\ hist # <<>>
    /\ hist[Len(hist)].op = "remove"
    /\ Len(hist) > 1
    /\ hist[Len(hist) - 1] = hist[Len(hist)]

\* every tracker has answered the check of this kind for entity e against
\* the storages cs: int are the interested sets before, int2 those after,
\* and cl the hooks delivered
Answered(int, int2, cl, kind, cs, e) ==
    \A s \in Systems :
        LET t == Track(kind, int[s], SysAspects[s], cs, s, e)
        IN  /\ int2[s] = t.interested
            /\ CallsTo(cl, s) = t.calls

\* the kind of check that follows the closure of a drain phase
CheckOf(p) ==
    IF p = "build" THEN "activated" ELSE "reactivated"

C31_Step ==
    /\ (/\ pc \in {"build", "modify"} /\ ~panicked /\ queue # <<>>
        /\ IsValid(em, Head(queue).e))
        => LET ent == Head(queue)
           IN  /\ comps' = RunClosure(Cur, ent.e, ent.f).comps
               /\ Answered(interested, interested', calls', CheckOf(pc), comps',
                           ent.e)
               /\ queue' = Tail(queue)
    /\ (pc = "idle" /\ ~panicked)
        => /\ \A e \in Handles, m \in Modifiers :
                 LET v == ModifyEntityOp(Cur, e, m)
                 IN  /\ v.comps = RunClosure(Cur, e, m).comps
                     /\ Answered(interested, v.interested, v.calls,
                                 "reactivated", v.comps, e)
           /\ \A b \in Builders :
                 LET v == BuildEntityOp(Cur, b)
                     e == Create(em).entity
                 IN  /\ v.comps = AddAll(comps, e, b.add)
                     /\ Answered(interested, v.interested, v.calls,
                                 "activated", v.comps, e)

\* C31: the closure of a Build or Modify entry, drained or immediate, has run
\* when the trackers check the entity, so they see the components it wrote;
\* one entry's check is complete before the next entry's closure runs
C31_ClosureBeforeCheck ==
    [][C31_Step]_vars

\* a drained modifier has added the component and the tracker of all: [A]
\* has taken the entity in, with another entry still waiting
C31_Witness ==
    /\ pc = "modify" /\ queue # <<>>
    /\ log # <<>>
    /\ log[Len(log)].k = "modify"
    /\ "A" \in log[Len(log)].f.add
    /\ \E i \in DOMAIN calls : calls[i].hook = "activated" /\ calls[i].sys = 1

\* C33: the entity a queued build returns is valid and counted at once, and
\* until its entry is drained it has no component, is in no interested set
\* and has been handed to no hook, unless something else operates on it
C33_QueuedBuildIsBare ==
    (~panicked) =>
        \A b \in Builders :
            LET e == Create(em).entity
                v == QueueBuilder(Cur, b)
            IN  /\ IsValid(v.em, e)
                /\ Count(v.em) = Count(em) + 1
                /\ v.build_queue[Len(v.build_queue)].e = e
                /\ \A s \in Systems : e \notin v.interested[s]
                /\ v.calls = <<>>
                /\ \A c \in CompIds : ~CMHas(v.comps, e, c)

C34_Step ==
    \A i \in DOMAIN calls' :
        LET c == calls'[i]
        IN  /\ c.hook = "activated" => c.e \notin interested[c.sys]
            /\ c.hook = "deactivated" => c.e \in interested[c.sys]

\* C34: over any sequence of World operations a tracker delivers
\* on_activated only for an entity that is not in its interested set and
\* on_deactivated only for one that is, so the two alternate for every
\* tracker and entity, beginning with on_activated
C34_HooksAlternate ==
    [][C34_Step]_vars

\* C35: between World operations every entity in a tracker's interested set
\* (for an InteractSystem: in either of its two sets) is valid
C35_InterestedAreValid ==
    pc = "idle" =>
        \A s \in Systems : \A e \in interested[s] : IsValid(em, e)

\* C36: once remove_entity or clear has delivered an entity's deactivation
\* to the managers, the entity is in no group and no player slot maps to it,
\* and the groups and slots of every other entity are as they were
C36_Step ==
    (hist' # <<>> /\ hist'[1].op \in {"remove_entity", "clear"})
        => LET gone == SeqToSet(hist'[1].delivered)
           IN  /\ \A e \in gone : ~Member(Groups', Players', e)
               /\ DOMAIN Groups' = DOMAIN Groups
               /\ \A k \in DOMAIN Groups :
                     Groups'[k] = SelectSeq(Groups[k], LAMBDA x : x \notin gone)
               /\ DOMAIN Players' \subseteq DOMAIN Players
               /\ \A i \in DOMAIN Players :
                     Players[i] \notin gone
                         => i \in DOMAIN Players' /\ Players'[i] = Players[i]

C36_ManagersForget ==
    [][C36_Step]_vars

C36_Witness ==
    /\ hist # <<>>
    /\ hist[1].op = "remove_entity"
    /\ hist[1].member
    /\ \E k \in DOMAIN Groups : Groups[k] # <<>>
    /\ DOMAIN Players # {}

\* the requests waiting in the three queues of world w
PendingIn(w) ==
    w.build_queue \o w.modify_queue \o w.remove_queue

\* the world World::clear leaves when called between operations
Cleared ==
    ClearSteps(Cur)[3].w

\* C37: after World::clear no entity is valid, entity_count is 0, every
\* tracker's interested set is empty and each entity it held received one
\* on_deactivated, every component storage is empty, and no waiting request
\* names an entity that is created afterwards
C37_ClearEmpties ==
    (pc = "idle" /\ ~panicked) =>
        /\ Live(Cleared.em) = {}
        /\ Count(Cleared.em) = 0
        /\ \A s \in Systems :
              /\ Cleared.interested[s] = {}
              /\ \A e \in interested[s] :
                    Times(Cleared.calls, Call(s, "deactivated", e)) = 1
        /\ \A c \in CompIds : Cleared.comps[c] = CMNew[c]
        /\ LET n == Create(Cleared.em)
           IN  \A i \in DOMAIN PendingIn(Cleared) :
                  /\ PendingIn(Cleared)[i].e # n.entity
                  /\ ~IsValid(n.em, PendingIn(Cleared)[i].e)

\* the World's queue that phase p drains
QueueOfPhase(p, b, m, r) ==
    CASE p = "build"  -> b
      [] p = "modify" -> m
      [] p = "remove" -> r

\* sequence q with more entries behind it
Extends(q2, q) ==
    Len(q) <= Len(q2) /\ SubSeq(q2, 1, Len(q)) = q

\* C38: each drain of update iterates over the snapshot of its queue taken
\* when the phase starts: every iteration shortens the snapshot from the
\* front, what the iteration enqueues goes behind the entries of the World's
\* queues and not to the snapshot, and a drain ends only when its snapshot is
\* used up, for the next phase in order or for the return of update; hence a
\* call of update that is let run returns or ends in error()
C38_Step ==
    /\ (pc \in Drains /\ pc' = pc)
        => /\ queue # <<>>
           /\ Len(queue') < Len(queue)
           /\ queue' = SubSeq(queue, Len(queue) - Len(queue') + 1, Len(queue))
           /\ Extends(build_queue', build_queue)
           /\ Extends(modify_queue', modify_queue)
           /\ Extends(remove_queue', remove_queue)
           /\ Len(build_queue') + Len(modify_queue') + Len(remove_queue')
                = Len(build_queue) + Len(modify_queue) + Len(remove_queue)
                    + Len(applied') - Len(applied)
    /\ (pc \in Drains /\ pc' # pc)
        => /\ queue = <<>>
           /\ IF pc = "remove" THEN pc' = "idle"
              ELSE pc' \in Drains /\ Rank(pc') = Rank(pc) + 1
    /\ (pc' \in Drains /\ pc' # pc)
        => /\ queue' = QueueOfPhase(pc', build_queue, modify_queue,
                                    remove_queue)
           /\ QueueOfPhase(pc', build_queue', modify_queue', remove_queue')
                = <<>>

C38_UpdateTerminates ==
    /\ [][C38_Step]_vars
    /\ (pc # "idle") ~> (pc = "idle" \/ panicked)

\* the modify drain has just run a modifier that enqueued a Modify request,
\* which waits in the World's queue
C38_Witness ==
    /\ pc = "modify" /\ ~panicked
    /\ log # <<>>
    /\ log[Len(log)].k = "modify"
    /\ log[Len(log)].f.nest = "modify"
    /\ \E i \in DOMAIN modify_queue : modify_queue[i].ph = "modify"

====
